---- MODULE Spec2Model ----
(***************************************************************************)
(* Model of the record service of Fin-Dept-App: the Invoices, CreditNotes  *)
(* and Contracts tables, the script cache that backs the list views, the   *)
(* Drive artifacts (documents and PDF exports) and the create / update /   *)
(* delete / list / getById operations of src/dataService.js and            *)
(* src/businessService.js.                                                 *)
(*                                                                         *)
(* A table is the sequence of its data rows (the header row is the fixed   *)
(* header the create functions write); a row is the flat sequence of its   *)
(* cells, every cell a string.  Every action is one whole handler.         *)
(***************************************************************************)
EXTENDS Integers, Sequences, FiniteSets, TLC

\* ------------------------------------------------------------------ bounds
\* Number of ids Utilities.getUuid() hands out in one run.
MaxCreates == 2
\* Number of documents the renderer copies from a template in one run.
MaxRenders == 3
\* Number of endpoint calls in one run.
MaxCalls == 4
\* CONFIG.INVOICE_TABLE.MAX_ROWS / CONFIG.CREDIT_NOTE_TABLE.MAX_ROWS, scaled
\* down (the credit-note header written by the code reserves 20 item rows).
MAX_ROWS == 2

\* ------------------------------------------------------- program constants
INVOICE_COLUMNS_PER_ROW == 6
CREDIT_NOTE_COLUMNS_PER_ROW == 4
INVOICE_ITEMS_START == 21
CREDIT_NOTE_ITEMS_START == 18

\* ------------------------------------------------------------ JS strings
Ch(s, i) == SubSeq(s, i, i)

IsSpace(c) == c = " "

RECURSIVE TrimLeft(_)
TrimLeft(s) ==
  IF Len(s) = 0 THEN s
  ELSE IF IsSpace(Ch(s, 1)) THEN TrimLeft(SubSeq(s, 2, Len(s))) ELSE s

RECURSIVE TrimRight(_)
TrimRight(s) ==
  IF Len(s) = 0 THEN s
  ELSE IF IsSpace(Ch(s, Len(s))) THEN TrimRight(SubSeq(s, 1, Len(s) - 1)) ELSE s

\* String.prototype.trim
Trim(s) == TrimRight(TrimLeft(s))

UpperLetters == "ABCDEFGHIJKLMNOPQRSTUVWXYZ"
LowerLetters == "abcdefghijklmnopqrstuvwxyz"

LowerMap ==
  [c \in {Ch(UpperLetters, i) : i \in 1..Len(UpperLetters)} |->
     Ch(LowerLetters, CHOOSE i \in 1..Len(UpperLetters) : Ch(UpperLetters, i) = c)]

LowerCh(c) == IF c \in DOMAIN LowerMap THEN LowerMap[c] ELSE c

RECURSIVE ToLowerCase(_)
ToLowerCase(s) ==
  IF Len(s) = 0 THEN s
  ELSE LowerCh(Ch(s, 1)) \o ToLowerCase(SubSeq(s, 2, Len(s)))

\* !x for a string x, and the recurring test  !x || x.toString().trim() === ""
Falsy(s) == s = ""
BlankStr(s) == Falsy(s) \/ Trim(s) = ""

\* ------------------------------------------------------------ JS numbers
\* A number is NaN or a decimal [m |-> mantissa, e |-> number of decimals],
\* value m / 10^e.
NaN == [nan |-> TRUE, m |-> 0, e |-> 0]
Dec(m, e) == [nan |-> FALSE, m |-> m, e |-> e]

Digits == "0123456789"
DigitMap ==
  [c \in {Ch(Digits, i) : i \in 1..Len(Digits)} |->
     (CHOOSE i \in 1..Len(Digits) : Ch(Digits, i) = c) - 1]
IsDigit(c) == c \in DOMAIN DigitMap
DigitVal(c) == DigitMap[c]

RECURSIVE Pow10(_)
Pow10(n) == IF n = 0 THEN 1 ELSE 10 * Pow10(n - 1)

\* Length of the longest prefix of s made of digits.
RECURSIVE DigitRun(_)
DigitRun(s) ==
  IF Len(s) = 0 \/ ~IsDigit(Ch(s, 1)) THEN 0
  ELSE 1 + DigitRun(SubSeq(s, 2, Len(s)))

RECURSIVE DigitsVal(_)
DigitsVal(s) ==
  IF Len(s) = 0 THEN 0
  ELSE 10 * DigitsVal(SubSeq(s, 1, Len(s) - 1)) + DigitVal(Ch(s, Len(s)))

\* The number of the prefix of u that has ni digits, then, when nf > 0, a
\* "." and nf digits.
ParseDigits(u, neg, ni, nf) ==
  IF ni = 0 /\ nf = 0 THEN NaN
  ELSE Dec((IF neg THEN 0 - 1 ELSE 1)
             * (DigitsVal(SubSeq(u, 1, ni)) * Pow10(nf)
                + DigitsVal(SubSeq(u, ni + 2, ni + 1 + nf))),
           nf)

\* The longest numeric prefix of u: digits, optionally "." and digits.
ParseNumber(u, neg) ==
  LET ni == DigitRun(u)
  IN ParseDigits(u, neg, ni,
                 IF Len(u) > ni /\ Ch(u, ni + 1) = "."
                 THEN DigitRun(SubSeq(u, ni + 2, Len(u))) ELSE 0)

\* parseFloat: leading whitespace skipped, an optional "-" and the longest
\* numeric prefix read, the rest ignored; NaN when there is no such prefix.
ParseSigned(s) ==
  IF Len(s) > 0 /\ Ch(s, 1) = "-" THEN ParseNumber(SubSeq(s, 2, Len(s)), TRUE)
  ELSE ParseNumber(s, FALSE)

ParseFloat(str) == ParseSigned(TrimLeft(str))

IsNaN(x) == x.nan

\* parseFloat(x) || 0 : NaN and 0 both give 0.
OrZero(x) == IF x.nan \/ x.m = 0 THEN Dec(0, 0) ELSE x

NumMul(a, b) == Dec(a.m * b.m, a.e + b.e)
NumDiv100(a) == Dec(a.m, a.e + 2)
NumAdd(a, b) ==
  LET e == IF a.e > b.e THEN a.e ELSE b.e
  IN Dec(a.m * Pow10(e - a.e) + b.m * Pow10(e - b.e), e)

\* Decimal text of a non-negative integer n written with exactly d digits
\* after the point (n counts units of 10^-d).
RECURSIVE PadLeft(_, _)
PadLeft(s, d) == IF Len(s) >= d THEN s ELSE PadLeft("0" \o s, d)

FixedText(n, d) ==
  IF d = 0 THEN ToString(n)
  ELSE ToString(n \div Pow10(d)) \o "." \o PadLeft(ToString(n % Pow10(d)), d)

\* Number.prototype.toFixed(d), rounding half away from zero.
ToFixed(x, d) ==
  IF x.nan THEN "NaN"
  ELSE LET a == IF x.m < 0 THEN 0 - x.m ELSE x.m
           n == IF x.e <= d THEN a * Pow10(d - x.e)
                ELSE (a + 5 * Pow10(x.e - d - 1)) \div Pow10(x.e - d)
       IN (IF x.m < 0 /\ n # 0 THEN "-" ELSE "") \o FixedText(n, d)

\* ------------------------------------------------------------ JS arrays
\* arr[i] with a 0-based index; a cell outside the row reads as blank, as
\* in the rectangular array getDataRange().getValues() returns.
At(row, i) == IF i >= 0 /\ i < Len(row) THEN row[i + 1] ELSE ""

\* Array.prototype.indexOf: 0-based position of the first match, or -1.
IndexOf(arr, x) ==
  IF \E i \in 1..Len(arr) : arr[i] = x
  THEN (CHOOSE i \in 1..Len(arr) : arr[i] = x /\ \A j \in 1..(i - 1) : arr[j] # x) - 1
  ELSE 0 - 1

\* arr.slice(from, to) with 0-based bounds, cells read through At.
Slice(row, from, to) == [k \in 1..(to - from) |-> At(row, from + k - 1)]

RECURSIVE Flatten(_)
Flatten(rows) ==
  IF Len(rows) = 0 THEN <<>> ELSE Head(rows) \o Flatten(Tail(rows))

\* ------------------------------------------------------------ sheet layout
RecTypes == {"invoice", "creditNote"}

ColumnsPerRow(t) ==
  IF t = "invoice" THEN INVOICE_COLUMNS_PER_ROW ELSE CREDIT_NOTE_COLUMNS_PER_ROW

ItemsStart(t) ==
  IF t = "invoice" THEN INVOICE_ITEMS_START ELSE CREDIT_NOTE_ITEMS_START

InvoiceBaseHeaders ==
  << "ID", "Project Name", "Invoice Number", "Client Name", "Client Address",
     "Client Number", "Invoice Date", "Due Date", "Tax Rate (%)", "Subtotal",
     "Tax Amount", "Total", "Exchange Rate", "Currency", "Amount in EUR",
     "Bank Details 1", "Bank Details 2", "Our Company", "Comment",
     "Google Doc Link", "PDF Link" >>

CreditNoteBaseHeaders ==
  << "ID", "Project Name", "CN Number", "Client Name", "Client Address",
     "Client Number", "CN Date", "Tax Rate (%)", "Subtotal", "Tax Amount",
     "Total", "Exchange Rate", "Currency", "Amount in EUR", "Our Company",
     "Comment", "Google Doc Link", "PDF Link" >>

InvoiceItemHeaders(i) ==
  LET r == "Row " \o ToString(i)
  IN << r \o " #", r \o " Service", r \o " Period", r \o " Quantity",
        r \o " Rate/hour", r \o " Amount" >>

CreditNoteItemHeaders(i) ==
  LET r == "Row " \o ToString(i)
  IN << r \o " #", r \o " Description", r \o " Period", r \o " Amount" >>

\* The header row the create functions write into an empty sheet.
InvoiceHeaders ==
  InvoiceBaseHeaders \o Flatten([i \in 1..MAX_ROWS |-> InvoiceItemHeaders(i)])

CreditNoteHeaders ==
  CreditNoteBaseHeaders \o Flatten([i \in 1..MAX_ROWS |-> CreditNoteItemHeaders(i)])

Headers(t) == IF t = "invoice" THEN InvoiceHeaders ELSE CreditNoteHeaders

\* sheet.getDataRange().getValues(): the header row, then the data rows, as
\* a rectangle as wide as the widest row (blank cells fill the shorter ones).
Values(rows, t) ==
  LET all == <<Headers(t)>> \o rows
      w == CHOOSE n \in {Len(all[i]) : i \in 1..Len(all)} :
             \A i \in 1..Len(all) : Len(all[i]) <= n
  IN [i \in 1..Len(all) |-> [k \in 1..w |-> At(all[i], k - 1)]]

\* sheet.getLastRow(): the header row plus the data rows.
GetLastRow(rows) == Len(rows) + 1

\* A faulty setValues: a row that is already there is pushed down instead of
\* being written over.
SetRowValuesInserting(rows, r, cells) ==
  LET d == r - 1
  IN IF d > Len(rows) THEN Append(rows, cells)
     ELSE [j \in 1..(Len(rows) + 1) |->
             IF j < d THEN rows[j] ELSE IF j = d THEN cells ELSE rows[j - 1]]

\* sheet.getRange(r, 1, 1, Len(cells)).setValues([cells]) on sheet row r
\* (1-based, the header is row 1): cells beyond the range keep their value.
SetRowValues(rows, r, cells) ==
  LET d   == r - 1
      old == IF d <= Len(rows) THEN rows[d] ELSE <<>>
      w   == IF Len(old) > Len(cells) THEN Len(old) ELSE Len(cells)
      new == [j \in 1..w |-> IF j <= Len(cells) THEN cells[j] ELSE old[j]]
  IN IF d <= Len(rows) THEN [rows EXCEPT ![d] = new] ELSE Append(rows, new)

\* sheet.getRange(r, c).setValue(v), column c 1-based.
\* A row below the last one is a blank row of the grid, and the rows down to
\* it become part of the data range.
SetCell(rows, r, c, v) ==
  LET d   == r - 1
      old == IF d <= Len(rows) THEN rows[d] ELSE <<>>
      w   == IF Len(old) > c THEN Len(old) ELSE c
  IN [i \in 1..(IF d > Len(rows) THEN d ELSE Len(rows)) |->
        IF i = d THEN [j \in 1..w |-> IF j = c THEN v ELSE At(old, j - 1)]
        ELSE IF i <= Len(rows) THEN rows[i] ELSE <<>>]

\* A faulty deleteRow: the 0-based index of the values array is taken for
\* the sheet row, so the row above goes (the header row is never removed).
DeleteRowAbove(rows, r) ==
  LET d == r - 2
  IN IF d < 1 THEN rows
     ELSE [j \in 1..(Len(rows) - 1) |-> IF j < d THEN rows[j] ELSE rows[j + 1]]

\* sheet.deleteRow(r)
DeleteRow(rows, r) ==
  LET d == r - 1
  IN [j \in 1..(Len(rows) - 1) |-> IF j < d THEN rows[j] ELSE rows[j + 1]]

\* ------------------------------------------------------------ Drive files
WordChars == "-_0123456789abcdefghijklmnopqrstuvwxyzABCDEFGHIJKLMNOPQRSTUVWXYZ"
WordCharSet == {Ch(WordChars, i) : i \in 1..Len(WordChars)}
IsWordCh(c) == c \in WordCharSet

RECURSIVE WordRun(_)
WordRun(s) ==
  IF Len(s) = 0 \/ ~IsWordCh(Ch(s, 1)) THEN 0
  ELSE 1 + WordRun(SubSeq(s, 2, Len(s)))

\* url.match(/[-\w]{25,}/): the first run of at least 25 id characters, or
\* "" when there is none.
RECURSIVE MatchFileId(_)
MatchFileId(url) ==
  IF Len(url) = 0 THEN ""
  ELSE LET n == WordRun(url)
       IN IF n >= 25 THEN SubSeq(url, 1, n)
          ELSE MatchFileId(SubSeq(url, n + 2, Len(url)))

\* extractFileIdFromUrl: throws on a falsy url and on a url without an id.
ExtractFileIdFromUrl(url) ==
  IF Falsy(url) THEN [ok |-> FALSE, id |-> ""]
  ELSE LET m == MatchFileId(url)
       IN IF m = "" THEN [ok |-> FALSE, id |-> ""] ELSE [ok |-> TRUE, id |-> m]

\* Ids and urls Drive gives the n-th rendered document and its PDF export.
DocId(n) == "doc-000000000000000000000" \o ToString(n)
PdfId(n) == "pdf-000000000000000000000" \o ToString(n)
DocUrl(n) == "https://docs.google.com/document/d/" \o DocId(n) \o "/edit"
PdfUrl(n) == "https://drive.google.com/file/d/" \o PdfId(n) \o "/view"

\* Utilities.getUuid(): the n-th id handed out.
Uuid(n) == "uuid-" \o ToString(n)

\* ------------------------------------------------------------ Lists sheet
\* The reference table: one record per data row, a field per column the
\* resolver reads.
ListsTable ==
  << [name |-> "Alpha", clientName |-> "Acme", ourCompany |-> "Us",
      templateName |-> "Standard", bankShort1 |-> "B1", bankShort2 |-> "ZZ",
      tplName |-> "Standard", tplId |-> "tpl-1", bankShort |-> "B1",
      bankFull |-> "Bank One IBAN 1"],
     [name |-> " Beta ", clientName |-> "Bcme", ourCompany |-> "Us",
      templateName |-> "  ", bankShort1 |-> "", bankShort2 |-> "",
      tplName |-> "", tplId |-> "", bankShort |-> "", bankFull |-> ""],
     [name |-> "Gamma", clientName |-> "Gcme", ourCompany |-> "Us",
      templateName |-> "Missing", bankShort1 |-> "B1", bankShort2 |-> "",
      tplName |-> "Unused", tplId |-> "", bankShort |-> "B2",
      bankFull |-> ""] >>

\* A faulty template map: the keys are the template names as written, not
\* case-folded.
TemplateMapGetCaseSensitive(values, key) ==
  LET hits == {i \in 1..Len(values) :
                 /\ Trim(values[i].tplName) # "" /\ Trim(values[i].tplId) # ""
                 /\ Trim(values[i].tplName) = key}
  IN IF hits = {} THEN ""
     ELSE Trim(values[CHOOSE i \in hits : \A j \in hits : j <= i].tplId)

\* A faulty bank map: a short code without an entry is handed back as the
\* details.
BankMapGetOrCode(values, key) ==
  LET hits == {i \in 1..Len(values) :
                 /\ Trim(values[i].bankShort) # "" /\ Trim(values[i].bankFull) # ""
                 /\ Trim(values[i].bankShort) = key}
  IN IF hits = {} THEN key
     ELSE Trim(values[CHOOSE i \in hits : \A j \in hits : j <= i].bankFull)

\* templateMap / bankMap built over all rows; a later row overwrites an
\* earlier one with the same key (Map.set).
TemplateMapGet(values, key) ==
  LET hits == {i \in 1..Len(values) :
                 /\ Trim(values[i].tplName) # "" /\ Trim(values[i].tplId) # ""
                 /\ ToLowerCase(Trim(values[i].tplName)) = key}
  IN IF hits = {} THEN ""
     ELSE Trim(values[CHOOSE i \in hits : \A j \in hits : j <= i].tplId)

BankMapGet(values, key) ==
  LET hits == {i \in 1..Len(values) :
                 /\ Trim(values[i].bankShort) # "" /\ Trim(values[i].bankFull) # ""
                 /\ Trim(values[i].bankShort) = key}
  IN IF hits = {} THEN ""
     ELSE Trim(values[CHOOSE i \in hits : \A j \in hits : j <= i].bankFull)

\* A faulty resolver: the project row is looked up by its trimmed name,
\* letter case included.
GetProjectDetailsCaseSensitive(values, projectName) ==
  LET hits == {i \in 1..Len(values) : Trim(values[i].name) = Trim(projectName)}
      none == [ok |-> FALSE, err |-> "", templateId |-> "", clientName |-> "",
               ourCompany |-> "", bankDetails1 |-> "", bankDetails2 |-> ""]
  IN IF hits = {} THEN [none EXCEPT !.err = "ProjectNotFound"]
     ELSE LET projectRow == values[CHOOSE i \in hits : \A j \in hits : i <= j]
              selectedTemplateName == Trim(projectRow.templateName)
              selectedTemplateId ==
                TemplateMapGet(values, ToLowerCase(selectedTemplateName))
          IN IF selectedTemplateName = "" THEN [none EXCEPT !.err = "NoTemplateName"]
             ELSE IF selectedTemplateId = "" THEN [none EXCEPT !.err = "NoTemplateFound"]
             ELSE [ok |-> TRUE, err |-> "", templateId |-> selectedTemplateId,
                   clientName |-> projectRow.clientName,
                   ourCompany |-> projectRow.ourCompany,
                   bankDetails1 |-> BankMapGet(values, Trim(projectRow.bankShort1)),
                   bankDetails2 |-> BankMapGet(values, Trim(projectRow.bankShort2))]

\* getProjectDetailsFromData: the config, or the error it throws.
GetProjectDetailsFromData(values, projectName) ==
  LET want == ToLowerCase(Trim(projectName))
      hits == {i \in 1..Len(values) : ToLowerCase(Trim(values[i].name)) = want}
      none == [ok |-> FALSE, err |-> "", templateId |-> "", clientName |-> "",
               ourCompany |-> "", bankDetails1 |-> "", bankDetails2 |-> ""]
  IN IF hits = {} THEN [none EXCEPT !.err = "ProjectNotFound"]
     ELSE LET projectRow == values[CHOOSE i \in hits : \A j \in hits : i <= j]
              selectedTemplateName == Trim(projectRow.templateName)
              selectedTemplateId ==
                TemplateMapGet(values, ToLowerCase(selectedTemplateName))
          IN IF selectedTemplateName = "" THEN [none EXCEPT !.err = "NoTemplateName"]
             ELSE IF selectedTemplateId = "" THEN [none EXCEPT !.err = "NoTemplateFound"]
             ELSE [ok |-> TRUE, err |-> "", templateId |-> selectedTemplateId,
                   clientName |-> projectRow.clientName,
                   ourCompany |-> projectRow.ourCompany,
                   bankDetails1 |-> BankMapGet(values, Trim(projectRow.bankShort1)),
                   bankDetails2 |-> BankMapGet(values, Trim(projectRow.bankShort2))]

\* getProjectDetailsWithValidation
GetProjectDetailsWithValidation(values, projectName) ==
  IF Falsy(projectName) \/ Trim(projectName) = ""
  THEN [GetProjectDetailsFromData(values, "") EXCEPT !.ok = FALSE,
                                                     !.err = "ProjectNameRequired"]
  ELSE LET details == GetProjectDetailsFromData(values, projectName)
       IN IF details.ok /\ details.templateId = ""
          THEN [details EXCEPT !.ok = FALSE, !.err = "NoTemplateForProject"]
          ELSE details

\* ------------------------------------------------------------ validation
\* validateInvoiceData: the list of error messages (isValid = no message).
ValidateInvoiceData(data) ==
  LET requiredFields == << "projectName", "invoiceNumber", "invoiceDate",
                           "dueDate", "subtotal", "tax" >>
      req == SelectSeq(requiredFields, LAMBDA f : Falsy(data[f]) \/ Trim(data[f]) = "")
  IN [i \in 1..Len(req) |-> req[i] \o " is required"]
     \o (IF ~Falsy(data.subtotal) /\ IsNaN(ParseFloat(data.subtotal))
         THEN << "Subtotal must be a valid number" >> ELSE <<>>)
     \o (IF ~Falsy(data.tax) /\ IsNaN(ParseFloat(data.tax))
         THEN << "Tax rate must be a valid number" >> ELSE <<>>)
     \o (IF Len(data.items) = 0
         THEN << "At least one invoice item is required" >> ELSE <<>>)
     \o (IF Falsy(data.templateId) THEN << "Template ID is required" >> ELSE <<>>)

\* validateCreditNoteData
ValidateCreditNoteData(data) ==
  LET requiredFields == << "projectName", "creditNoteNumber", "clientName",
                           "clientAddress", "clientNumber", "creditNoteDate",
                           "tax", "subtotal", "total", "currency", "ourCompany" >>
      req == SelectSeq(requiredFields, LAMBDA f : Falsy(data[f]) \/ Trim(data[f]) = "")
  IN [i \in 1..Len(req) |-> req[i] \o " is required"]
     \o (IF Len(data.items) = 0
         THEN << "At least one item is required" >> ELSE <<>>)

\* ------------------------------------------------------------ row codec
\* new Date(s) as a cell value.
DateCell(s) == "Date(" \o s \o ")"

\* The loop of processFormFromData / processCreditNoteFormFromData over
\* data.items: the position is stamped into cell 0 and a non-empty period
\* (cell 2) gets the text-escape marker.
StampItem(item, i) ==
  [k \in 1..Len(item) |->
     IF k = 1 THEN ToString(i)
     ELSE IF k = 3 /\ ~Falsy(item[3]) THEN "'" \o item[3]
     ELSE item[k]]

ItemCells(items) == Flatten([i \in 1..Len(items) |-> StampItem(items[i], i)])

\* taxAmount = subtotalNum * taxRate / 100 and totalAmount = subtotalNum +
\* taxAmount, written with toFixed as the create functions and the invoice
\* update write them.
AmountCells(subtotalNum, taxRate, taxAmount) ==
  [taxRate |-> ToFixed(taxRate, 0), subtotal |-> ToFixed(subtotalNum, 2),
   taxAmount |-> ToFixed(taxAmount, 2),
   total |-> ToFixed(NumAdd(subtotalNum, taxAmount), 2)]

AmountsOf(subtotalNum, taxRate) ==
  AmountCells(subtotalNum, taxRate, NumDiv100(NumMul(subtotalNum, taxRate)))

\* subtotalNum = parseFloat(data.subtotal) || 0, taxRate = parseFloat(data.tax) || 0
Amounts(data) ==
  AmountsOf(OrZero(ParseFloat(data.subtotal)), OrZero(ParseFloat(data.tax)))

\* The row processFormFromData writes: 21 header cells by position, then
\* the cells of every submitted item.
InvoiceCreateRow(uniqueId, data) ==
  LET a == Amounts(data)
  IN << uniqueId, data.projectName, data.invoiceNumber, data.clientName,
        data.clientAddress, data.clientNumber, DateCell(data.invoiceDate),
        DateCell(data.dueDate), a.taxRate, a.subtotal, a.taxAmount, a.total,
        IF data.currency = "$" THEN ToFixed(ParseFloat(data.exchangeRate), 4) ELSE "",
        data.currency,
        IF data.currency = "$" THEN ToFixed(ParseFloat(data.amountInEUR), 2) ELSE "",
        data.bankDetails1, data.bankDetails2,
        data.ourCompany, data.comment, "", "" >>
     \o ItemCells(data.items)

\* The row processCreditNoteFormFromData writes: 18 header cells, then items.
CreditNoteCreateRow(uniqueId, data) ==
  LET a == Amounts(data)
  IN << uniqueId, data.projectName, data.creditNoteNumber, data.clientName,
        data.clientAddress, data.clientNumber, DateCell(data.creditNoteDate),
        a.taxRate, a.subtotal, a.taxAmount, a.total,
        IF data.currency = "$" THEN ToFixed(ParseFloat(data.exchangeRate), 4) ELSE "",
        data.currency,
        IF data.currency = "$" THEN ToFixed(ParseFloat(data.amountInEUR), 2) ELSE "",
        data.ourCompany, data.comment, "", "" >>
     \o ItemCells(data.items)

\* The item loop of getInvoiceDataByIdFromData / getCreditNoteDataByIdFromData:
\* slot i of the item block is kept when one of its cells is non-blank.
DecodeItems(row, t) ==
  LET slot(i) == Slice(row, ItemsStart(t) + i * ColumnsPerRow(t),
                       ItemsStart(t) + (i + 1) * ColumnsPerRow(t))
      kept(i) == \E k \in 1..ColumnsPerRow(t) :
                    ~Falsy(slot(i)[k]) /\ Trim(slot(i)[k]) # ""
      all == [i \in 1..MAX_ROWS |-> slot(i - 1)]
      keep == [i \in 1..MAX_ROWS |-> kept(i - 1)]
      idx == SelectSeq([i \in 1..MAX_ROWS |-> i], LAMBDA i : keep[i])
  IN [j \in 1..Len(idx) |-> all[idx[j]]]

\* A faulty lookup: a row is addressed by its position, the last data row,
\* once the id is known to be in the table.
FindRowByPosition(data, idCol, id) ==
  IF \E i \in 2..Len(data) : At(data[i], idCol) = id THEN Len(data) - 1 ELSE 0 - 1

\* 0-based index of the first data row (i >= 1) of `data` whose cell in
\* column idCol equals id, or -1: the lookup loop every by-id function runs.
FindRowById(data, idCol, id) ==
  IF \E i \in 2..Len(data) : At(data[i], idCol) = id
  THEN (CHOOSE i \in 2..Len(data) :
          /\ At(data[i], idCol) = id
          /\ \A j \in 2..(i - 1) : At(data[j], idCol) # id) - 1
  ELSE 0 - 1

\* ------------------------------------------------------------ state
VARIABLES
  sheet,     \* table name -> sequence of data rows (flat sequences of cells)
  cache,     \* script cache: key -> Null or the stored JSON text
  files,     \* ids of the Drive files that exist and are not trashed
  trashed,   \* ids of the Drive files this system has trashed
  nextId,    \* number of the next id Utilities.getUuid() hands out
  nextDoc,   \* number of the next document the renderer copies
  rt,        \* the record type the calls of this run are about
  calls,     \* number of calls made so far
  last,      \* the latest call: operation, arguments, result
  run        \* the invocation that runs stage by stage: its position and locals

vars == <<sheet, cache, files, trashed, nextId, nextDoc, rt, calls, last, run>>

Tables == RecTypes \cup {"contract"}
CacheKeys == {"invoiceList", "creditNoteList", "creditNotesList", "contractList"}

\* cache.get gives null for an absent key; a stored value is a JSON text.
Null == <<>>
JsonStringify(v) == <<"json", v>>
JsonParse(text) == text[2]

\* The part of the state a handler reads and writes, as one record.
St == [sheet |-> sheet, cache |-> cache, files |-> files, trashed |-> trashed,
       nextId |-> nextId, nextDoc |-> nextDoc]

CacheRemove(st, key) == [st EXCEPT !.cache[key] = Null]
CachePut(st, key, text) == [st EXCEPT !.cache[key] = text]

\* The cache key the mutations of a record type remove.
ListKey(t) == IF t = "invoice" THEN "invoiceList" ELSE "creditNoteList"

\* formatDate (formatDateFromUtils) of a date cell: the display text.
FormatDate(cell) == "fmt:" \o cell

\* ------------------------------------------------------------ list views
\* The list a list view computes from the rows of its table.
InvoiceListOf(rows) ==
  LET data == Values(rows, "invoice")
      headers == [k \in 1..Len(data[1]) |-> Trim(data[1][k])]
      col(name) == IndexOf(headers, name)
  IN [i \in 1..Len(rows) |->
        LET row == rows[i]
        IN [id |-> At(row, col("ID")),
            projectName |-> At(row, col("Project Name")),
            invoiceNumber |-> At(row, col("Invoice Number")),
            invoiceDate |-> FormatDate(At(row, col("Invoice Date"))),
            dueDate |-> FormatDate(At(row, col("Due Date"))),
            total |-> IF At(row, col("Total")) # ""
                      THEN ToFixed(ParseFloat(At(row, col("Total"))), 2) ELSE "",
            currency |-> At(row, col("Currency"))]]

CreditNoteListOf(rows) ==
  LET data == Values(rows, "creditNote")
      headers == [k \in 1..Len(data[1]) |-> Trim(data[1][k])]
      col(name) == IndexOf(headers, name)
  IN [i \in 1..Len(rows) |->
        LET row == rows[i]
        IN [id |-> At(row, col("ID")),
            projectName |-> At(row, col("Project Name")),
            creditNoteNumber |-> At(row, col("CN Number")),
            creditNoteDate |-> FormatDate(At(row, col("CN Date"))),
            total |-> IF At(row, col("Total")) # ""
                      THEN ToFixed(ParseFloat(At(row, col("Total"))), 2) ELSE "",
            currency |-> At(row, col("Currency"))]]

\* Contract rows are << ID, document link, Contractor Name, Contract Number >>.
ContractListOf(rows) ==
  [i \in 1..Len(rows) |->
     [id |-> At(rows[i], 0), contractorName |-> At(rows[i], 2),
      contractNumber |-> At(rows[i], 3)]]

\* The shape shared by the list-view functions: a cache hit returns the parsed
\* entry; a failed read returns [] from the catch; a table without data rows
\* returns [] without caching; otherwise the list computed from the rows,
\* result, is cached and returned.
ListFromData(st, key, table, result, readFails) ==
  LET cached == st.cache[key]
  IN IF cached # Null THEN [st |-> st, out |-> JsonParse(cached), hit |-> TRUE]
     ELSE IF readFails THEN [st |-> st, out |-> <<>>, hit |-> FALSE]
     ELSE IF Len(st.sheet[table]) + 1 < 2 THEN [st |-> st, out |-> <<>>, hit |-> FALSE]
     ELSE [st |-> CachePut(st, key, JsonStringify(result)),
           out |-> result, hit |-> FALSE]

GetInvoiceListFromData(st, readFails) ==
  ListFromData(st, "invoiceList", "invoice", InvoiceListOf(st.sheet["invoice"]),
               readFails)

\* getInvoiceListWithCaching: the cached list, or the list
\* getInvoiceListFromData returns, whatever it is, stored under the key.
GetInvoiceListWithCaching(st, readFails) ==
  LET r == GetInvoiceListFromData(st, readFails)
  IN IF st.cache["invoiceList"] # Null THEN r
     ELSE [r EXCEPT !.st = CachePut(r.st, "invoiceList", JsonStringify(r.out))]

GetCreditNoteListFromData(st, readFails) ==
  ListFromData(st, "creditNoteList", "creditNote",
               CreditNoteListOf(st.sheet["creditNote"]), readFails)

GetCreditNotesListFromData(st, readFails) ==
  ListFromData(st, "creditNotesList", "creditNote",
               CreditNoteListOf(st.sheet["creditNote"]), readFails)

GetContractListFromData(st, readFails) ==
  ListFromData(st, "contractList", "contract", ContractListOf(st.sheet["contract"]),
               readFails)

\* ------------------------------------------------------------ results
\* What a handler hands back: the state it leaves and its result.  ok is
\* FALSE when it threw or returned {success:false}; err names the error.
Result(st, ok, err, id, docUrl, pdfUrl, note) ==
  [st |-> st, ok |-> ok, err |-> err, id |-> id, docUrl |-> docUrl,
   pdfUrl |-> pdfUrl, note |-> note]

Failure(st, err, id) == Result(st, FALSE, err, id, "", "", <<>>)

\* ------------------------------------------------------------ renderer
\* What the environment does to one render: the template, "ok", cannot be
\* copied ("copyFail") or holds no table with the item header ("noTable");
\* the PDF conversion gives a blob ("ok") or null ("null").

\* createInvoiceDoc / createCreditNoteDoc: throws without a template id and
\* when the template cannot be copied; the copy stays in Drive when a later
\* step throws.  updateInvoiceTable throws TableNotFound, updateCreditNoteTable
\* returns without writing item rows.
CreateDoc(st, t, templateId, tpl) ==
  IF Falsy(templateId) THEN [st |-> st, ok |-> FALSE, err |-> "NoTemplateId", n |-> 0]
  ELSE IF tpl = "copyFail"
  THEN [st |-> st, ok |-> FALSE, err |-> "TemplateCopyFailed", n |-> 0]
  ELSE LET n == st.nextDoc
           copied == [st EXCEPT !.files = @ \cup {DocId(n)}, !.nextDoc = n + 1]
       IN IF t = "invoice" /\ tpl = "noTable"
          THEN [st |-> copied, ok |-> FALSE, err |-> "TableNotFound", n |-> n]
          ELSE [st |-> copied, ok |-> TRUE, err |-> "", n |-> n]

\* doc.getAs("application/pdf") and folder.createFile(pdf) on the document
\* CreateDoc gave: skipped when that threw, and no file is created from a
\* null blob.
ExportPdf(doc, pdf) ==
  IF ~doc.ok THEN doc
  ELSE IF pdf = "null" THEN [doc EXCEPT !.ok = FALSE, !.err = "PdfFailed"]
  ELSE [doc EXCEPT !.st.files = @ \cup {PdfId(doc.n)}]

\* The render every create and update runs: the document, then its PDF.
Render(st, t, templateId, env) ==
  ExportPdf(CreateDoc(st, t, templateId, env.tpl), env.pdf)

\* try { DriveApp.getFileById(extractFileIdFromUrl(url)).setTrashed(true) }:
\* threw is TRUE when the url holds no id, the file is unknown to Drive or
\* Drive refuses (driveFails).
TryTrash(st, url, driveFails) ==
  LET x == ExtractFileIdFromUrl(url)
  IN IF ~x.ok \/ driveFails \/ x.id \notin (st.files \cup st.trashed)
     THEN [st |-> st, threw |-> TRUE]
     ELSE [st |-> [st EXCEPT !.files = @ \ {x.id}, !.trashed = @ \cup {x.id}],
           threw |-> FALSE]

\* ------------------------------------------------------------ create
\* The end of a create, doc being its render: the throw is passed on, or
\* the two links are written into columns linkCol and linkCol + 1 of the
\* new sheet row and the list cache key is removed.
WriteLinks(doc, t, uniqueId, newRowIndex, linkCol) ==
  IF ~doc.ok THEN Failure(doc.st, doc.err, uniqueId)
  ELSE Result(CacheRemove(
                [doc.st EXCEPT
                   !.sheet[t] = SetCell(SetCell(@, newRowIndex, linkCol, DocUrl(doc.n)),
                                        newRowIndex, linkCol + 1, PdfUrl(doc.n))],
                ListKey(t)),
              TRUE, "", uniqueId, DocUrl(doc.n), PdfUrl(doc.n), <<>>)

\* The body shared by processFormFromData and processCreditNoteFormFromData,
\* row being the row built for the id Uuid(st.nextId): the row is written at getLastRow() + 1, the document rendered, the PDF
\* exported, the two links written into columns linkCol and linkCol + 1 of
\* that sheet row, and the list cache key removed; a throw ends it there.
ProcessForm(st, t, templateId, row, linkCol, env) ==
  LET uniqueId == Uuid(st.nextId)
      newRowIndex == GetLastRow(st.sheet[t]) + 1
      st1 == [st EXCEPT !.nextId = @ + 1,
                        !.sheet[t] = SetRowValues(@, newRowIndex, row)]
  IN WriteLinks(Render(st1, t, templateId, env), t, uniqueId, newRowIndex, linkCol)

\* A faulty create: the persisted row is taken out again when the render
\* or the export fails.
ProcessFormFromDataRollingBack(st, data, env) ==
  LET r == ProcessForm(st, "invoice", data.templateId,
                      InvoiceCreateRow(Uuid(st.nextId), data), 20, env)
  IN IF r.ok THEN r ELSE [r EXCEPT !.st.sheet = st.sheet]

ProcessFormFromData(st, data, env) ==
  ProcessForm(st, "invoice", data.templateId,
                      InvoiceCreateRow(Uuid(st.nextId), data), 20, env)

CreditNoteTemplateId == "1yCKAx3nyIz-L_u3FPSK1zMof5Mo0m2-gsNzl1cCQsuQ"

ProcessCreditNoteFormFromData(st, data, env) ==
  ProcessForm(st, "creditNote", CreditNoteTemplateId,
              CreditNoteCreateRow(Uuid(st.nextId), data), 17, env)

\* A faulty orchestration: the form is validated after the data-service
\* create has run.
ProcessInvoiceCreationValidatingLate(st, data, env) ==
  LET r == ProcessFormFromData(st, data, env)
  IN IF Len(ValidateInvoiceData(data)) # 0 THEN Failure(r.st, "Validation", "")
     ELSE r

\* processInvoiceCreation: validation, then config resolution, then the
\* data-service create.  getProjectFolderId falls back to CONFIG.FOLDER_ID
\* and never returns an empty id.
ProcessInvoiceCreation(st, data, env) ==
  LET details == GetProjectDetailsWithValidation(ListsTable, data.projectName)
  IN IF Len(ValidateInvoiceData(data)) # 0 THEN Failure(st, "Validation", "")
     ELSE IF ~details.ok THEN Failure(st, details.err, "")
     ELSE ProcessFormFromData(st, data, env)

ProcessCreditNoteCreation(st, data, env) ==
  LET details == GetProjectDetailsWithValidation(ListsTable, data.projectName)
  IN IF Len(ValidateCreditNoteData(data)) # 0 THEN Failure(st, "Validation", "")
     ELSE IF ~details.ok THEN Failure(st, details.err, "")
     ELSE ProcessCreditNoteFormFromData(st, data, env)

\* ------------------------------------------------------------ delete
\* if (url && url.trim() !== "") try { trash the file } catch { note msg }:
\* d is the state and the notes so far.
TrashNoting(d, url, driveFails, msg) ==
  LET x == TryTrash(d.st, url, driveFails)
  IN IF Falsy(url) \/ Trim(url) = "" THEN d
     ELSE [st |-> x.st, note |-> IF x.threw THEN Append(d.note, msg) ELSE d.note]

\* sheet.deleteRow(rowToDelete), the cache key removed, success returned
\* with the notes.
RemoveRow(d, t, id, rowToDelete) ==
  Result(CacheRemove([d.st EXCEPT !.sheet[t] = DeleteRow(@, rowToDelete)], ListKey(t)),
         TRUE, "", id, "", "", d.note)

\* A faulty delete: the list key is removed before the row is looked up,
\* so a call that finds no row has already emptied the cache.
DeleteByIdClearingList(st, t, id, env) ==
  LET data == Values(st.sheet[t], t)
      headers == data[1]
      idCol == IndexOf(headers, "ID")
      i == FindRowById(data, idCol, id)
      cleared == CacheRemove(st, ListKey(t))
  IN IF BlankStr(id) THEN Failure(st, "InvalidId", id)
     ELSE IF idCol = 0 - 1 THEN Failure(cleared, "IdColumnNotFound", id)
     ELSE IF i = 0 - 1 THEN Failure(cleared, "NotFound", id)
     ELSE RemoveRow(
            TrashNoting(
              TrashNoting([st |-> st, note |-> <<>>],
                          At(data[i + 1], IndexOf(headers, "Google Doc Link")),
                          env.docFails,
                          "Google Doc already deleted or not found."),
              At(data[i + 1], IndexOf(headers, "PDF Link")), env.pdfFails,
              "PDF already deleted or not found."),
            t, id, i + 1)

\* deleteInvoiceByIdFromData / deleteCreditNoteByIdFromData.
DeleteByIdFromData(st, t, id, env) ==
  LET data == Values(st.sheet[t], t)
      headers == data[1]
      idCol == IndexOf(headers, "ID")
      i == FindRowById(data, idCol, id)
      rowToDelete == i + 1
      docUrl == At(data[i + 1], IndexOf(headers, "Google Doc Link"))
      pdfUrl == At(data[i + 1], IndexOf(headers, "PDF Link"))
  IN IF BlankStr(id) THEN Failure(st, "InvalidId", id)
     ELSE IF idCol = 0 - 1 THEN Failure(st, "IdColumnNotFound", id)
     ELSE IF i = 0 - 1 THEN Failure(st, "NotFound", id)
     ELSE RemoveRow(
            TrashNoting(
              TrashNoting([st |-> st, note |-> <<>>], docUrl, env.docFails,
                          "Google Doc already deleted or not found."),
              pdfUrl, env.pdfFails, "PDF already deleted or not found."),
            t, id, rowToDelete)

DeleteInvoiceByIdFromData(st, id, env) == DeleteByIdFromData(st, "invoice", id, env)

DeleteCreditNoteByIdFromData(st, id, env) ==
  DeleteByIdFromData(st, "creditNote", id, env)

\* ------------------------------------------------------------ update
\* The item block updateInvoiceByIdFromData builds: stamped items, cut to
\* the capacity of the block and padded with blanks.
InvoiceFlatItems(items) ==
  LET itemsCapacity == MAX_ROWS * INVOICE_COLUMNS_PER_ROW
      flat == ItemCells(items)
  IN [j \in 1..itemsCapacity |-> IF j <= Len(flat) THEN flat[j] ELSE ""]

\* fullRow of updateInvoiceByIdFromData: blank cells, the header fields
\* placed under the column of their name, the item block from "Row 1 #".
InvoiceUpdateRow(headers, id, data, docUrl, pdfUrl) ==
  LET a == Amounts(data)
      exch == IF Falsy(data.exchangeRate) THEN "0" ELSE data.exchangeRate
      eur  == IF Falsy(data.amountInEUR) THEN "0" ELSE data.amountInEUR
      field(h) ==
        CASE h = "ID" -> id
          [] h = "Project Name" -> data.projectName
          [] h = "Invoice Number" -> data.invoiceNumber
          [] h = "Client Name" -> data.clientName
          [] h = "Client Address" -> data.clientAddress
          [] h = "Client Number" -> data.clientNumber
          [] h = "Invoice Date" -> DateCell(data.invoiceDate)
          [] h = "Due Date" ->
               DateCell(IF Falsy(data.dueDate) THEN "01/01/1970" ELSE data.dueDate)
          [] h = "Tax Rate (%)" -> a.taxRate
          [] h = "Subtotal" -> a.subtotal
          [] h = "Tax Amount" -> a.taxAmount
          [] h = "Total" -> a.total
          [] h = "Exchange Rate" ->
               IF data.currency = "$" THEN ToFixed(ParseFloat(exch), 4) ELSE ""
          [] h = "Currency" -> data.currency
          [] h = "Amount in EUR" ->
               IF data.currency = "$" THEN ToFixed(ParseFloat(eur), 2) ELSE ""
          [] h = "Bank Details 1" -> data.bankDetails1
          [] h = "Bank Details 2" -> data.bankDetails2
          [] h = "Our Company" -> data.ourCompany
          [] h = "Comment" -> data.comment
          [] h = "Google Doc Link" -> docUrl
          [] h = "PDF Link" -> pdfUrl
          [] OTHER -> ""
      firstItemIdx == IndexOf(headers, "Row 1 #")
      flatItems == InvoiceFlatItems(data.items)
  IN [k \in 1..Len(headers) |->
        LET j == (k - 1) - firstItemIdx
        IN IF firstItemIdx # 0 - 1 /\ j >= 0 /\ j < Len(flatItems)
           THEN flatItems[j + 1]
           ELSE field(headers[k])]

\* if (oldUrl) try { trash the file } catch { log }: the update goes on
\* whether or not the file could be trashed.
TrashOld(st, url, driveFails) ==
  IF ~Falsy(url) THEN TryTrash(st, url, driveFails).st ELSE st

\* The old document and the old PDF of the row an update found.
TrashOldArtifacts(st, headers, old, env) ==
  TrashOld(TrashOld(st, At(old, IndexOf(headers, "Google Doc Link")), env.docFails),
           At(old, IndexOf(headers, "PDF Link")), env.pdfFails)

\* A faulty render of an update: an old artifact that could not be trashed
\* makes the update fail.
RenderUpdateTrashingStrictly(st, t, details, templateId, env) ==
  IF env.docFails \/ env.pdfFails
  THEN [st |-> st, ok |-> FALSE, err |-> "TrashFailed", n |-> 0]
  ELSE IF ~details.ok THEN [st |-> st, ok |-> FALSE, err |-> details.err, n |-> 0]
  ELSE Render(st, t, templateId, env)

\* The render of an update: it throws the error of the config resolution
\* when that found nothing, before any document is made.
RenderUpdate(st, t, details, templateId, env) ==
  IF ~details.ok THEN [st |-> st, ok |-> FALSE, err |-> details.err, n |-> 0]
  ELSE Render(st, t, templateId, env)

\* The end of an update, doc being its render: the throw is passed on, or
\* the row is written over the sheet row and the list cache key removed.
WriteUpdatedRow(doc, t, id, sheetRow, row) ==
  IF ~doc.ok THEN Failure(doc.st, doc.err, id)
  ELSE Result(CacheRemove([doc.st EXCEPT !.sheet[t] = SetRowValues(@, sheetRow, row)],
                          ListKey(t)),
              TRUE, "", id, DocUrl(doc.n), PdfUrl(doc.n), <<>>)

\* updateInvoiceByIdFromData from the row it found on: old artifacts
\* trashed, config resolved, document rendered, fullRow written.
ReplaceInvoiceRow(st, id, data, env, headers, old, sheetRow, details) ==
  LET doc == RenderUpdate(TrashOldArtifacts(st, headers, old, env), "invoice",
                          details, details.templateId, env)
  IN WriteUpdatedRow(doc, "invoice", id, sheetRow,
                     InvoiceUpdateRow(headers, id, data, DocUrl(doc.n), PdfUrl(doc.n)))

\* updateInvoiceByIdFromData
UpdateInvoiceByIdFromData(st, id, data, env) ==
  LET table == Values(st.sheet["invoice"], "invoice")
      headers == table[1]
      idCol == IndexOf(headers, "ID")
      rowIndex == FindRowById(table, idCol, id)
  IN IF BlankStr(id) THEN Failure(st, "InvalidId", id)
     ELSE IF idCol = 0 - 1 THEN Failure(st, "IdColumnNotFound", id)
     ELSE IF rowIndex = 0 - 1 THEN Failure(st, "NotFound", id)
     ELSE ReplaceInvoiceRow(st, id, data, env, headers, table[rowIndex + 1],
                            rowIndex + 1,
                            GetProjectDetailsFromData(ListsTable, data.projectName))

\* x || d for a string x.
Or(x, d) == IF Falsy(x) THEN d ELSE x

\* The row updateCreditNoteByIdFromData builds: the mapped header fields,
\* the id, the existing value of every other cell, then the submitted
\* items written from column index 18, four cells each, while they fit.
CreditNoteUpdateRow(headers, old, data, docUrl, pdfUrl) ==
  LET field(h, k) ==
        CASE h = "Project Name" -> data.projectName
          [] h = "CN Number" -> data.creditNoteNumber
          [] h = "Client Name" -> data.clientName
          [] h = "Client Address" -> data.clientAddress
          [] h = "Client Number" -> data.clientNumber
          [] h = "CN Date" ->
               IF Falsy(data.creditNoteDate) THEN "" ELSE DateCell(data.creditNoteDate)
          [] h = "Tax Rate (%)" -> Or(data.tax, "0")
          [] h = "Subtotal" -> Or(data.subtotal, "0")
          [] h = "Total" -> Or(data.total, "0")
          [] h = "Exchange Rate" -> Or(data.exchangeRate, "1.0000")
          [] h = "Currency" -> Or(data.currency, "$")
          [] h = "Amount in EUR" -> data.amountInEUR
          [] h = "Our Company" -> data.ourCompany
          [] h = "Comment" -> data.comment
          [] h = "ID" -> data.id
          [] OTHER -> At(old, k - 1)
      baseCol == CREDIT_NOTE_ITEMS_START
      itemCell(k) ==
        LET i == (k - 1 - baseCol) \div 4
            c == (k - 1 - baseCol) % 4
        IN IF k - 1 >= baseCol /\ i < Len(data.items)
              /\ baseCol + i * 4 + 3 < Len(headers)
           THEN <<At(data.items[i + 1], c)>> ELSE <<>>
  IN [k \in 1..Len(headers) |->
        IF headers[k] = "Google Doc Link" THEN docUrl
        ELSE IF headers[k] = "PDF Link" THEN pdfUrl
        ELSE IF itemCell(k) # <<>> THEN itemCell(k)[1]
        ELSE field(headers[k], k)]

\* updateCreditNoteByIdFromData from the row it found on: old artifacts
\* trashed, config resolved, document rendered from the fixed template,
\* the row written.
ReplaceCreditNoteRow(st, data, env, headers, old, rowToUpdate, details) ==
  LET doc == RenderUpdate(TrashOldArtifacts(st, headers, old, env), "creditNote",
                          details, CreditNoteTemplateId, env)
  IN WriteUpdatedRow(doc, "creditNote", data.id, rowToUpdate,
                     CreditNoteUpdateRow(headers, old, data, DocUrl(doc.n),
                                         PdfUrl(doc.n)))

\* updateCreditNoteByIdFromData
UpdateCreditNoteByIdFromData(st, data, env) ==
  LET sheetData == Values(st.sheet["creditNote"], "creditNote")
      headers == sheetData[1]
      idCol == IndexOf(headers, "ID")
      rowToUpdate == FindRowById(sheetData, idCol, data.id) + 1
  IN IF Falsy(data.id) THEN Failure(st, "InvalidId", data.id)
     ELSE IF idCol = 0 - 1 THEN Failure(st, "IdColumnNotFound", data.id)
     ELSE IF rowToUpdate = 0 THEN Failure(st, "NotFound", data.id)
     ELSE ReplaceCreditNoteRow(st, data, env, headers, sheetData[rowToUpdate],
                               rowToUpdate,
                               GetProjectDetailsFromData(ListsTable, data.projectName))

\* ------------------------------------------------------------ contracts
\* saveContractToData: the document is created when both links are given
\* and the template can be copied (a failure is only logged); the row is
\* appended; no cache key is touched.
SaveContractToData(st, formData, env) ==
  LET contractId == Uuid(st.nextId)
      made == ~Falsy(formData.templateLink) /\ ~Falsy(formData.folderLink)
              /\ env.tpl # "copyFail"
      n == st.nextDoc
      documentUrl == IF made THEN DocUrl(n) ELSE ""
      st1 == IF made THEN [st EXCEPT !.files = @ \cup {DocId(n)}, !.nextDoc = n + 1]
             ELSE st
      rowData == << contractId, documentUrl, formData.contractorName,
                    formData.contractNumber >>
      st2 == [st1 EXCEPT !.nextId = @ + 1, !.sheet["contract"] = Append(@, rowData)]
  IN Result(st2, TRUE, "", contractId, documentUrl, "", <<>>)

\* ------------------------------------------------------------ getById
\* formatDateForInput (formatDateForInputFromUtils) of a date cell.
FormatDateForInput(cell) == "input:" \o cell

NoRecord(kind) ==
  [kind |-> kind, projectName |-> "", number |-> "", clientName |-> "",
   clientAddress |-> "", clientNumber |-> "", date |-> "", tax |-> "",
   subtotal |-> "", total |-> "", exchangeRate |-> "", currency |-> "",
   amountInEUR |-> "", ourCompany |-> "", comment |-> "", items |-> <<>>]

\* The object both getById functions build from the row they found
\* (number and date are the invoice's or the credit note's).
RecordOf(row, headers, t) ==
  LET cell(name) == At(row, IndexOf(headers, name))
  IN [kind |-> "record",
      projectName |-> cell("Project Name"),
      number |-> cell(IF t = "invoice" THEN "Invoice Number" ELSE "CN Number"),
      clientName |-> cell("Client Name"),
      clientAddress |-> cell("Client Address"),
      clientNumber |-> cell("Client Number"),
      date |-> FormatDateForInput(cell(IF t = "invoice" THEN "Invoice Date" ELSE "CN Date")),
      tax |-> cell("Tax Rate (%)"),
      subtotal |-> cell("Subtotal"),
      total |-> cell("Total"),
      exchangeRate |-> cell("Exchange Rate"),
      currency |-> cell("Currency"),
      amountInEUR |-> cell("Amount in EUR"),
      ourCompany |-> cell("Our Company"),
      comment |-> cell("Comment"),
      items |-> DecodeItems(row, t)]

\* getInvoiceDataByIdFromData: {} for a blank id, an id in no row and a
\* failed read.
GetInvoiceDataByIdFromData(rows, id, readFails) ==
  LET data == Values(rows, "invoice")
      i == FindRowById(data, IndexOf(data[1], "ID"), id)
  IN IF BlankStr(id) \/ readFails \/ i = 0 - 1 THEN NoRecord("empty")
     ELSE RecordOf(data[i + 1], data[1], "invoice")

\* getCreditNoteDataByIdFromData: null in the same three cases.
GetCreditNoteDataByIdFromData(rows, id, readFails) ==
  LET data == Values(rows, "creditNote")
      i == FindRowById(data, IndexOf(data[1], "ID"), id)
  IN IF BlankStr(id) \/ readFails \/ i = 0 - 1 THEN NoRecord("null")
     ELSE RecordOf(data[i + 1], data[1], "creditNote")

\* ------------------------------------------------------------ inputs
InvoiceItemA == << "1", "Dev", "Jan 2024", "10", "5", "50" >>
InvoiceItemB == << "9", "QA", "", "2", "5", "10" >>
CreditNoteItemA == << "1", "Refund", "Jan 2024", "50" >>
CreditNoteItemB == << "9", "Fee", "", "10" >>

\* MAX_ROWS + 1 items: one more than the item block holds.
TooMany(a, b) == [i \in 1..(MAX_ROWS + 1) |-> IF i % 2 = 1 THEN a ELSE b]

BaseInvoice ==
  [projectName |-> "Alpha", invoiceNumber |-> "INV-7", clientName |-> "Acme",
   clientAddress |-> "1 Road", clientNumber |-> "C-1",
   invoiceDate |-> "2024-01-31", dueDate |-> "15/02/2024", tax |-> "15",
   subtotal |-> "100.00", currency |-> "$", exchangeRate |-> "1.1",
   amountInEUR |-> "90.5", bankDetails1 |-> "Bank One IBAN 1",
   bankDetails2 |-> "", ourCompany |-> "Us", comment |-> "",
   items |-> << InvoiceItemA >>, templateId |-> "tpl-1"]

ValidInvoices ==
  { BaseInvoice,
    [BaseInvoice EXCEPT !.projectName = " alpha ", !.tax = "7.5",
                        !.subtotal = "80", !.currency = "EUR",
                        !.items = << InvoiceItemB, InvoiceItemA >>],
    [BaseInvoice EXCEPT !.items = TooMany(InvoiceItemA, InvoiceItemB)] }

\* Rejected by validateInvoiceData.
InvalidInvoices ==
  { [BaseInvoice EXCEPT !.subtotal = "abc"],
    [BaseInvoice EXCEPT !.tax = "x"],
    [BaseInvoice EXCEPT !.projectName = "  "],
    [BaseInvoice EXCEPT !.items = <<>>],
    [BaseInvoice EXCEPT !.tax = ""] }

\* Valid, but the project does not resolve to a config.
UnresolvedInvoices ==
  { [BaseInvoice EXCEPT !.projectName = "Ghost"],
    [BaseInvoice EXCEPT !.projectName = "beta"],
    [BaseInvoice EXCEPT !.projectName = "Gamma"] }

BaseCreditNote ==
  [id |-> "", projectName |-> "Alpha", creditNoteNumber |-> "CN-3",
   clientName |-> "Acme", clientAddress |-> "1 Road", clientNumber |-> "C-1",
   creditNoteDate |-> "2024-02-01", tax |-> "15", subtotal |-> "100.00",
   total |-> "115.00", currency |-> "$", exchangeRate |-> "1.1",
   amountInEUR |-> "90.5", ourCompany |-> "Us", comment |-> "",
   items |-> << CreditNoteItemA >>]

ValidCreditNotes ==
  { BaseCreditNote,
    [BaseCreditNote EXCEPT !.tax = "7.5", !.subtotal = "80", !.total = "86",
                           !.currency = "EUR",
                           !.items = << CreditNoteItemB, CreditNoteItemA >>],
    [BaseCreditNote EXCEPT !.items = TooMany(CreditNoteItemA, CreditNoteItemB)] }

InvalidCreditNotes ==
  { [BaseCreditNote EXCEPT !.clientName = " "],
    [BaseCreditNote EXCEPT !.items = <<>>] }

UnresolvedCreditNotes ==
  { [BaseCreditNote EXCEPT !.projectName = "Ghost"],
    [BaseCreditNote EXCEPT !.projectName = "beta"],
    [BaseCreditNote EXCEPT !.projectName = "Gamma"] }

ContractInputs ==
  { [templateLink |-> "https://docs/t", folderLink |-> "https://drive/f",
     contractorName |-> "Carol", contractNumber |-> "K-1"] }

\* Ids a caller passes: the ids handed out so far or later (an id no row
\* has yet, or no longer has) and a blank one.
IdInputs == {Uuid(n) : n \in 1..MaxCreates} \cup {""}


Env(tpl, pdf, docFails, pdfFails) ==
  [tpl |-> tpl, pdf |-> pdf, docFails |-> docFails, pdfFails |-> pdfFails]

EnvOk == Env("ok", "ok", FALSE, FALSE)

\* One render: the template cannot be copied, holds no item table, or the
\* PDF conversion gives no blob.
RenderFailEnvs ==
  { Env("copyFail", "ok", FALSE, FALSE), Env("noTable", "ok", FALSE, FALSE),
    Env("ok", "null", FALSE, FALSE) }

\* The two artifact deletions: each succeeds or throws.
TrashEnvs == { Env("ok", "ok", d, p) : d \in BOOLEAN, p \in BOOLEAN }

\* The calls made: the submitted data and what the environment does to the
\* call.  Every valid form meets the environment that lets it through; the
\* failing environments meet one form each, and a form that is rejected or
\* whose project does not resolve never reaches the renderer.
Calls(valid, other, envs) ==
  (valid \X {EnvOk})
  \cup ({CHOOSE d \in valid : Len(d.items) = 1} \X envs)
  \cup (other \X {EnvOk})

CreateInvoiceCalls ==
  Calls(ValidInvoices, InvalidInvoices \cup UnresolvedInvoices, RenderFailEnvs)

CreateCreditNoteCalls ==
  Calls(ValidCreditNotes, InvalidCreditNotes \cup UnresolvedCreditNotes,
        RenderFailEnvs)

\* update runs no form validation.
UpdateInvoiceCalls ==
  Calls(ValidInvoices, UnresolvedInvoices, RenderFailEnvs \cup TrashEnvs)

UpdateCreditNoteCalls ==
  Calls(ValidCreditNotes, UnresolvedCreditNotes, RenderFailEnvs \cup TrashEnvs)

\* ------------------------------------------------------------ actions
NoData == <<>>

\* The record of a call: `data` is kept for the calls that wrote a row.
Call(op, id, data, ok, err, note, out) ==
  [op |-> op, id |-> id, data |-> data, ok |-> ok, err |-> err,
   note |-> note, out |-> out]

\* No invocation is under way stage by stage.
Idle ==
  [kind |-> "idle", pc |-> 0, trace |-> <<>>, id |-> "", data |-> NoData,
   env |-> EnvOk, templateId |-> "", headers |-> <<>>, row |-> <<>>, at |-> 0,
   n |-> 0, err |-> ""]

\* The state a handler leaves becomes the state.
Becomes(st) ==
  /\ sheet' = st.sheet
  /\ cache' = st.cache
  /\ files' = st.files
  /\ trashed' = st.trashed
  /\ nextId' = st.nextId
  /\ nextDoc' = st.nextDoc
  /\ rt' = rt
  /\ calls' = calls + 1
  /\ run' = run

Init ==
  /\ sheet = [t \in Tables |-> <<>>]
  /\ cache = [k \in CacheKeys |-> Null]
  /\ files = {}
  /\ trashed = {}
  /\ nextId = 1
  /\ nextDoc = 1
  /\ rt \in Tables
  /\ calls = 0
  /\ last = Call("init", "", NoData, TRUE, "", <<>>, <<>>)
  /\ run = Idle

CanCall == calls < MaxCalls
CanCreate == CanCall /\ nextId <= MaxCreates /\ nextDoc <= MaxRenders
CanRender == CanCall /\ nextDoc <= MaxRenders

\* The submitted data of a call, kept when the call left a row behind.
Kept(r, data) == IF r.ok \/ r.id # "" THEN data ELSE NoData

\* The state a handler leaves becomes the state, and the call is recorded
\* with its result r.
Returns(op, id, data, r) ==
  /\ Becomes(r.st)
  /\ last' = Call(op, id, data, r.ok, r.err, r.note, <<>>)

Created(data, r) == Returns("create", r.id, Kept(r, data), r)
Updated(id, data, r) == Returns("update", id, IF r.ok THEN data ELSE NoData, r)

\* processForm(data)
CreateInvoice ==
  /\ rt = "invoice"
  /\ CanCreate
  /\ \E c \in CreateInvoiceCalls :
       Created(c[1], ProcessInvoiceCreation(St, c[1], c[2]))

\* processCreditNoteForm(data)
CreateCreditNote ==
  /\ rt = "creditNote"
  /\ CanCreate
  /\ \E c \in CreateCreditNoteCalls :
       Created(c[1], ProcessCreditNoteCreation(St, c[1], c[2]))

\* updateInvoiceById(id, data)
UpdateInvoice ==
  /\ rt = "invoice"
  /\ CanRender
  /\ \E id \in IdInputs, c \in UpdateInvoiceCalls :
       Updated(id, c[1], UpdateInvoiceByIdFromData(St, id, c[1], c[2]))

\* updateCreditNoteById(data)
UpdateCreditNote ==
  /\ rt = "creditNote"
  /\ CanRender
  /\ \E id \in IdInputs, c \in UpdateCreditNoteCalls :
       Updated(id, [c[1] EXCEPT !.id = id],
               UpdateCreditNoteByIdFromData(St, [c[1] EXCEPT !.id = id], c[2]))

\* deleteInvoiceById(id)
DeleteInvoice ==
  /\ rt = "invoice"
  /\ CanCall
  /\ \E id \in IdInputs, env \in TrashEnvs :
       Returns("delete", id, NoData, DeleteInvoiceByIdFromData(St, id, env))

\* deleteCreditNoteById(id)
DeleteCreditNote ==
  /\ rt = "creditNote"
  /\ CanCall
  /\ \E id \in IdInputs, env \in TrashEnvs :
       Returns("delete", id, NoData, DeleteCreditNoteByIdFromData(St, id, env))

\* saveContractToData(formData)
SaveContract ==
  /\ rt = "contract"
  /\ CanCreate
  /\ \E formData \in ContractInputs,
          env \in {EnvOk, Env("copyFail", "ok", FALSE, FALSE)} :
       Created(formData, SaveContractToData(St, formData, env))

ListCall(view, r) ==
  /\ Becomes(r.st)
  /\ last' = Call(IF r.hit THEN "listHit" ELSE "listMiss", view, NoData,
                  TRUE, "", <<>>, r.out)

\* getInvoiceList()
GetInvoiceList ==
  /\ rt = "invoice"
  /\ CanCall
  /\ \E readFails \in BOOLEAN :
       ListCall("invoiceList", GetInvoiceListFromData(St, readFails))

\* getCreditNoteList()
GetCreditNoteList ==
  /\ rt = "creditNote"
  /\ CanCall
  /\ \E readFails \in BOOLEAN :
       ListCall("creditNoteList", GetCreditNoteListFromData(St, readFails))

\* getCreditNotesListFromData()
GetCreditNotesList ==
  /\ rt = "creditNote"
  /\ CanCall
  /\ \E readFails \in BOOLEAN :
       ListCall("creditNotesList", GetCreditNotesListFromData(St, readFails))

\* getContractListFromData()
GetContractList ==
  /\ rt = "contract"
  /\ CanCall
  /\ \E readFails \in BOOLEAN :
       ListCall("contractList", GetContractListFromData(St, readFails))

Next ==
  \/ CreateInvoice
  \/ CreateCreditNote
  \/ UpdateInvoice
  \/ UpdateCreditNote
  \/ DeleteInvoice
  \/ DeleteCreditNote
  \/ SaveContract
  \/ GetInvoiceList
  \/ GetCreditNoteList
  \/ GetCreditNotesList
  \/ GetContractList

Spec == Init /\ [][Next]_vars

\* ------------------------------------------------------------ properties
IdOf(row) == At(row, 0)
DocLink(row) == At(row, IndexOf(Headers(rt), "Google Doc Link"))
PdfLink(row) == At(row, IndexOf(Headers(rt), "PDF Link"))
HasId(rows, id) == \E i \in 1..Len(rows) : IdOf(rows[i]) = id
RowAt(rows, id) == CHOOSE i \in 1..Len(rows) : IdOf(rows[i]) = id

ConfigErrors == {"ProjectNotFound", "NoTemplateName", "NoTemplateFound"}
RenderErrors == {"TemplateCopyFailed", "TableNotFound", "PdfFailed"}

\* The cache keys the list views of a record type read.
ListKeysOf(t) ==
  CASE t = "invoice" -> {"invoiceList"}
    [] t = "creditNote" -> {"creditNoteList", "creditNotesList"}
    [] t = "contract" -> {"contractList"}

\* What getInvoiceList returns when nothing is cached.
UncachedInvoiceList ==
  GetInvoiceListFromData([St EXCEPT !.cache = [k \in CacheKeys |-> Null]], FALSE).out

\* getById of the record the latest call was about.
ReadBack ==
  IF rt = "invoice"
  THEN GetInvoiceDataByIdFromData(sheet["invoice"], last.id, FALSE)
  ELSE GetCreditNoteDataByIdFromData(sheet["creditNote"], last.id, FALSE)

\* Two numeric texts denote the same number.
SameNumber(x, y) ==
  LET a == ParseFloat(x)
      b == ParseFloat(y)
  IN IF IsNaN(a) \/ IsNaN(b) THEN x = y
     ELSE a.m * Pow10(b.e) = b.m * Pow10(a.e)

\* The items read are the items sent, in order: the first cell holds the
\* position (or what was sent), a period cell may carry the escape marker.
SameItems(read, sent) ==
  /\ Len(read) = Len(sent)
  /\ \A i \in 1..Len(sent) : \A k \in 1..Len(sent[i]) :
       \/ read[i][k] = sent[i][k]
       \/ k = 1 /\ read[i][k] = ToString(i)
       \/ k = 3 /\ read[i][k] = "'" \o sent[i][k]

SameHeader(rec, d) ==
  /\ rec.kind = "record"
  /\ rec.projectName = d.projectName
  /\ rec.number = (IF rt = "invoice" THEN d.invoiceNumber ELSE d.creditNoteNumber)
  /\ rec.clientName = d.clientName
  /\ rec.clientAddress = d.clientAddress
  /\ rec.clientNumber = d.clientNumber
  /\ rec.currency = d.currency
  /\ rec.ourCompany = d.ourCompany
  /\ rec.comment = d.comment
  /\ SameNumber(rec.tax, d.tax)
  /\ SameNumber(rec.subtotal, d.subtotal)
  /\ SameNumber(rec.exchangeRate, d.exchangeRate)
  /\ SameNumber(rec.amountInEUR, d.amountInEUR)

\* C1: a getInvoiceList call answered from the cache returns the list an
\* uncached read of the Invoices table returns at that moment.
C1_CachedListIsCurrent ==
  (rt = "invoice" /\ last.op = "listHit") => last.out = UncachedInvoiceList

\* C2: a successful update(id, data) overwrites the row whose ID cell equals
\* id, wherever it is; that cell still equals id afterwards and every other
\* row of the table is unchanged.
C2_UpdateTargetsRowById ==
  [][ (rt \in RecTypes /\ last'.op = "update" /\ last'.ok) =>
        LET old == sheet[rt]
            new == sheet'[rt]
            id  == last'.id
        IN /\ Len(new) = Len(old)
           /\ HasId(old, id)
           /\ \A i \in 1..Len(old) :
                IF i = RowAt(old, id)
                THEN /\ IdOf(new[i]) = id
                     /\ new[i] # old[i]
                     /\ At(new[i], 1) = last'.data.projectName
                ELSE new[i] = old[i] ]_vars

C2_UpdatedSecondRow ==
  /\ rt \in RecTypes /\ last.op = "update" /\ last.ok
  /\ Len(sheet[rt]) = 2
  /\ IdOf(sheet[rt][2]) = last.id

\* C3: delete(id) of an id in the table succeeds, removes exactly the row
\* with that id and the list cache key, whichever of the two artifact
\* deletions fail; an artifact that is linked and was not trashed has its
\* message in the note, and a message is only about a linked artifact.
C3_DeleteRemovesExactlyTheRow ==
  [][ (rt \in RecTypes /\ last'.op = "delete" /\ HasId(sheet[rt], last'.id)) =>
        LET old == sheet[rt]
            new == sheet'[rt]
            i   == RowAt(old, last'.id)
            left(url) ==
              /\ url # ""
              /\ LET x == ExtractFileIdFromUrl(url)
                 IN ~x.ok \/ x.id \notin trashed'
            said(msg) == \E n \in 1..Len(last'.note) : last'.note[n] = msg
        IN /\ last'.ok
           /\ Len(new) = Len(old) - 1
           /\ \A j \in 1..Len(new) : new[j] = (IF j < i THEN old[j] ELSE old[j + 1])
           /\ cache'[ListKey(rt)] = Null
           /\ left(DocLink(old[i])) => said("Google Doc already deleted or not found.")
           /\ left(PdfLink(old[i])) => said("PDF already deleted or not found.")
           /\ said("Google Doc already deleted or not found.") => DocLink(old[i]) # ""
           /\ said("PDF already deleted or not found.") => PdfLink(old[i]) # "" ]_vars

C3_DeletedWithBothArtifactsLeft ==
  /\ rt \in RecTypes /\ last.op = "delete" /\ last.ok
  /\ Len(last.note) = 2
  /\ Len(sheet[rt]) = 1
  /\ files # {}

\* C4: a create whose form validation rejects (a required field blank, a
\* non-numeric subtotal, a missing tax, no items) ends with a validation
\* error and leaves the tables, the Drive files and the cache as they were.
C4_RejectedFormChangesNothing ==
  /\ rt = "invoice" =>
       \A d \in InvalidInvoices, env \in {EnvOk} \cup RenderFailEnvs :
         LET r == ProcessInvoiceCreation(St, d, env)
         IN ~r.ok /\ r.err = "Validation" /\ r.st = St
  /\ rt = "creditNote" =>
       \A d \in InvalidCreditNotes, env \in {EnvOk} \cup RenderFailEnvs :
         LET r == ProcessCreditNoteCreation(St, d, env)
         IN ~r.ok /\ r.err = "Validation" /\ r.st = St

C4_RejectedAfterRowsAndCache ==
  /\ rt \in RecTypes /\ last.op = "create" /\ last.err = "Validation"
  /\ Len(sheet[rt]) > 0
  /\ cache[ListKey(rt)] # Null
  /\ files # {}

\* C5: a create or an update that fails in the project-config resolution
\* writes or changes no row, creates no file and trashes no artifact.
C5_ConfigFailureChangesNothing ==
  [][ (rt \in RecTypes /\ last'.err \in ConfigErrors) =>
        /\ sheet' = sheet
        /\ files' = files
        /\ trashed' = trashed ]_vars

\* C6: a create that fails at the render or the export raises the error and
\* leaves the new row in the table, with its generated id and both link
\* cells blank; no other row is changed.
C6_FailedCreateKeepsRow ==
  [][ (rt \in RecTypes /\ last'.op = "create" /\ last'.err \in RenderErrors) =>
        LET old == sheet[rt]
            new == sheet'[rt]
        IN /\ ~last'.ok
           /\ last'.id = Uuid(nextId)
           /\ Len(new) = Len(old) + 1
           /\ \A j \in 1..Len(old) : new[j] = old[j]
           /\ IdOf(new[Len(new)]) = last'.id
           /\ DocLink(new[Len(new)]) = ""
           /\ PdfLink(new[Len(new)]) = "" ]_vars

C6_ExportFailedOnSecondRow ==
  /\ rt \in RecTypes /\ last.op = "create" /\ last.err = "PdfFailed"
  /\ Len(sheet[rt]) = 2
  /\ IdOf(sheet[rt][2]) = last.id

\* C7: when a mutation of a record type's table has completed, every cache
\* key a list view of that record type reads has been removed.
C7_MutationRemovesEveryListKey ==
  (last.op \in {"create", "update", "delete"} /\ last.ok) =>
     \A k \in ListKeysOf(rt) : cache[k] = Null

\* C8: when a create that persisted its row has ended, successfully or with
\* a render or export failure, the list cache key of its record type has
\* been removed.
C8_PersistedCreateRemovesListKey ==
  (rt \in RecTypes /\ last.op = "create" /\ last.id # "") =>
     cache[ListKey(rt)] = Null

\* C9: reading back by its id a record created from a valid form with at
\* most MAX_ROWS items returns the header fields and the items submitted
\* (item positions stamped, period cells possibly escaped).
C9_CreateThenReadBack ==
  (rt \in RecTypes /\ last.op = "create" /\ last.ok
     /\ Len(last.data.items) <= MAX_ROWS) =>
     /\ SameHeader(ReadBack, last.data)
     /\ SameItems(ReadBack.items, last.data.items)

\* C10: after a successful update with k <= MAX_ROWS items, reading the
\* record back returns exactly those k items in the submitted order.
C10_UpdateThenReadBackItems ==
  (rt \in RecTypes /\ last.op = "update" /\ last.ok
     /\ Len(last.data.items) <= MAX_ROWS) =>
     SameItems(ReadBack.items, last.data.items)

\* C11: in the row a create or an update persisted, the Tax Amount cell is
\* subtotal x taxRate / 100 of the submitted data in 2-decimal fixed format
\* and the Total cell is subtotal plus that tax amount in the same format.
C11_TaxAmountAndTotalCells ==
  (rt \in RecTypes /\ last.op \in {"create", "update"} /\ last.data # NoData
     /\ HasId(sheet[rt], last.id)) =>
     LET row == sheet[rt][RowAt(sheet[rt], last.id)]
         subtotalNum == OrZero(ParseFloat(last.data.subtotal))
         taxRate == OrZero(ParseFloat(last.data.tax))
         taxText == ToFixed(NumDiv100(NumMul(subtotalNum, taxRate)), 2)
     IN /\ At(row, IndexOf(Headers(rt), "Tax Amount")) = taxText
        /\ At(row, IndexOf(Headers(rt), "Total"))
             = ToFixed(NumAdd(subtotalNum, ParseFloat(taxText)), 2)

\* ------------------------------------------------------------ resolver
\* The config resolver applied to one reference table and one project name.

\* Data rows of the Lists sheet: project names that differ in case and
\* whitespace, selected template names with and without a map entry, bank
\* codes with and without an entry.
ListsRows ==
  { [name |-> n, clientName |-> "Acme", ourCompany |-> "Us", templateName |-> tn,
     bankShort1 |-> b1, bankShort2 |-> "", tplName |-> tpl[1], tplId |-> tpl[2],
     bankShort |-> "B1", bankFull |-> "Bank One IBAN 1"] :
      n \in {"Alpha", " ALPHA ", "Beta"},
      tn \in {"Standard", " standard ", " "},
      b1 \in {"B1", "zz"},
      tpl \in {<<"STANDARD", "tpl-1">>, <<"", "tpl-1">>, <<"Standard", " ">>} }

ListsTables ==
  {ListsTable} \cup {<<r>> : r \in ListsRows}
  \cup {<<r1, r2>> : r1 \in ListsRows, r2 \in ListsRows}

ProjectNames == {"Alpha", " alpha ", "ALPHA", "Beta", "beta  ", "Ghost"}

ResolverInit ==
  /\ sheet = [t \in Tables |-> <<>>]
  /\ cache = [k \in CacheKeys |-> Null]
  /\ files = {}
  /\ trashed = {}
  /\ nextId = 1
  /\ nextDoc = 1
  /\ rt = "lists"
  /\ calls = 0
  /\ last = Call("init", "", NoData, TRUE, "", <<>>, <<>>)
  /\ run = Idle

\* The resolver reads the Lists sheet and writes nothing; the call is
\* recorded with the table it read and the config or error r it gave.
Resolved(op, values, projectName, r) ==
  /\ calls' = calls + 1
  /\ last' = Call(op, projectName, values, r.ok, r.err, <<>>, r)
  /\ UNCHANGED <<sheet, cache, files, trashed, nextId, nextDoc, rt, run>>

\* getProjectDetailsFromData(projectName)
ResolveProjectConfig ==
  /\ calls = 0
  /\ \E values \in ListsTables, projectName \in ProjectNames :
    Resolved("resolve", values, projectName,
             GetProjectDetailsFromData(values, projectName))

\* getProjectDetailsWithValidation(projectName)
ResolveWithValidation ==
  /\ calls = 0
  /\ \E values \in ListsTables, projectName \in ProjectNames \cup {"", "  "} :
    Resolved("resolveValidated", values, projectName,
             GetProjectDetailsWithValidation(values, projectName))

ResolverNext ==
  \/ ResolveProjectConfig
  \/ ResolveWithValidation

ResolverSpec == ResolverInit /\ [][ResolverNext]_vars

\* The name a project name is compared by: trimmed and case-folded.
Canonical(name) == ToLowerCase(Trim(name))

\* C12: two project names that differ only in letter case or in leading and
\* trailing whitespace get the same config, or the same error, from the
\* resolver on the same reference table.
C12_SameConfigForEquivalentNames ==
  last.op = "resolve" =>
    \A other \in ProjectNames :
      Canonical(other) = Canonical(last.id) =>
        GetProjectDetailsFromData(last.data, other) = last.out

C12_ResolvedUnderOtherSpelling ==
  /\ last.op = "resolve" /\ last.ok
  /\ last.id = " alpha "
  /\ \A i \in 1..Len(last.data) : last.data[i].name # last.id

\* The first data row whose trimmed, case-folded name is the requested one
\* (0: no row).
MatchedRow(values, projectName) ==
  LET hits == {i \in 1..Len(values) :
                 Canonical(values[i].name) = Canonical(projectName)}
  IN IF hits = {} THEN 0 ELSE CHOOSE i \in hits : \A j \in hits : i <= j

\* The template-name-to-id map has an entry for the name: some row carries
\* the name, in any letter case, next to a non-blank template id.
HasTemplateEntry(values, templateName) ==
  \E i \in 1..Len(values) :
    /\ Trim(values[i].tplName) # "" /\ Trim(values[i].tplId) # ""
    /\ Canonical(values[i].tplName) = Canonical(templateName)

\* The short-to-full map has an entry for the bank short code.
HasBankEntry(values, short) ==
  \E i \in 1..Len(values) :
    /\ Trim(values[i].bankShort) # "" /\ Trim(values[i].bankFull) # ""
    /\ Trim(values[i].bankShort) = Trim(short)

\* C13: the resolver fails with ProjectNotFound exactly when no row's trimmed,
\* case-folded name equals the requested name, with NoTemplateName exactly
\* when the matched row's selected template name is blank, with
\* NoTemplateFound exactly when that name is not blank and has no entry in the
\* template map; a call raises at most one of the three, and none otherwise.
C13_ErrorKindByCause ==
  last.op = "resolve" =>
    LET values == last.data
        m == MatchedRow(values, last.id)
        blank == m # 0 /\ Trim(values[m].templateName) = ""
        unmapped == /\ m # 0 /\ Trim(values[m].templateName) # ""
                    /\ ~HasTemplateEntry(values, values[m].templateName)
    IN /\ (last.err = "ProjectNotFound") <=> (m = 0)
       /\ (last.err = "NoTemplateName") <=> blank
       /\ (last.err = "NoTemplateFound") <=> unmapped
       /\ last.err \in {"", "ProjectNotFound", "NoTemplateName", "NoTemplateFound"}
       /\ last.ok <=> (last.err = "")
       /\ last.out.err = last.err

C13_TemplateNameWithoutEntry ==
  /\ last.op = "resolve"
  /\ last.err = "NoTemplateFound"
  /\ last.id = " alpha "
  /\ \E i \in 1..Len(last.data) : Trim(last.data[i].tplName) # ""

\* C14: every config the resolver returns, directly or through the validating
\* wrapper, has a non-empty template id; a bank short code of the project
\* without an entry in the short-to-full map gives the empty string in its
\* bank-details field and does not make the call fail.
C14_TemplateIdNeverEmpty ==
  last.op \in {"resolve", "resolveValidated"} =>
    LET values == last.data
        m == MatchedRow(values, last.id)
    IN /\ last.ok =>
            /\ last.out.templateId # ""
            /\ m # 0
            /\ ~HasBankEntry(values, values[m].bankShort1) => last.out.bankDetails1 = ""
            /\ ~HasBankEntry(values, values[m].bankShort2) => last.out.bankDetails2 = ""
       /\ (/\ m # 0 /\ Trim(last.id) # ""
           /\ HasTemplateEntry(values, values[m].templateName)) => last.ok

C14_UnknownBankCodeResolved ==
  /\ last.op = "resolveValidated" /\ last.ok
  /\ last.data[MatchedRow(last.data, last.id)].bankShort1 = "zz"
  /\ last.out.bankDetails1 = ""
  /\ last.out.templateId = "tpl-1"

\* ------------------------------------------------------------ documents
\* The content of a rendered document.  A body holds its tables (a table is
\* a sequence of rows, the first one the header; a row is a sequence of cell
\* texts), the placeholders still standing in its text, and whether the
\* exchange rate notice is still there.  The Cyrillic placeholders and header
\* spellings of the templates are written here in Latin letters.

\* String.prototype.includes
Includes(s, sub) ==
  \E i \in 1..(Len(s) + 1 - Len(sub)) : SubSeq(s, i, i + Len(sub) - 1) = sub

\* The header cells of a table, trimmed.
HeadersOf(table) == [i \in 1..Len(table[1]) |-> Trim(table[1][i])]

\* updateInvoiceTable: the six-column header signature.
IsInvoiceTable(headers) ==
  /\ Len(headers) >= 6
  /\ headers[1] = "#" /\ headers[2] = "Services" /\ headers[3] = "Period"
  /\ headers[4] = "Quantity" /\ headers[5] = "Rate/hour" /\ headers[6] = "Amount"

\* updateCreditNoteTable: the four-column header signature.
IsCreditNoteTable(headers) ==
  /\ Len(headers) >= 4
  /\ headers[1] \in {"#", "No"}
  /\ \E w \in {"description", "opisanie", "services"} :
       Includes(ToLowerCase(headers[2]), w)
  /\ \E w \in {"period", "period_ru"} : Includes(ToLowerCase(headers[3]), w)
  /\ \E w \in {"amount", "summa"} : Includes(ToLowerCase(headers[4]), w)

\* for (const table of tables) ... break: the first table with the invoice
\* signature (0: none).
FindInvoiceTable(tables) ==
  LET hits == {k \in 1..Len(tables) : IsInvoiceTable(HeadersOf(tables[k]))}
  IN IF hits = {} THEN 0 ELSE CHOOSE k \in hits : \A j \in hits : k <= j

\* The first table that has rows and the credit note signature (0: none).
FindCreditNoteTable(tables) ==
  LET hits == {k \in 1..Len(tables) :
                 Len(tables[k]) # 0 /\ IsCreditNoteTable(HeadersOf(tables[k]))}
  IN IF hits = {} THEN 0 ELSE CHOOSE k \in hits : \A j \in hits : k <= j

\* formatCurrencyFromUtils(cell, data.currency) of a non-empty cell.
FormatCurrency(cell, currency) == <<currency, cell>>

\* The table row appended for an item: the cells at the 0-based positions
\* in money go through the currency format, an empty cell stays empty.
ItemRow(item, money, currency) ==
  [i \in 1..Len(item) |->
     IF (i - 1) \in money /\ item[i] # "" THEN FormatCurrency(item[i], currency)
     ELSE item[i]]

\* Clear the rows under the header and append one row per item.
FillTable(table, items, money, currency) ==
  <<table[1]>> \o [i \in 1..Len(items) |-> ItemRow(items[i], money, currency)]

\* A faulty credit note table update: a missing table is an error, as it is
\* for invoices.
UpdateCreditNoteTableStrict(doc, data, k) ==
  IF ~doc.ok THEN doc
  ELSE IF k = 0 THEN [doc EXCEPT !.ok = FALSE, !.err = "TableNotFound"]
  ELSE [doc EXCEPT !.body.tables[k] = FillTable(@, data.items, {3}, data.currency)]

\* updateInvoiceTable(body, data), k the table it found.
UpdateInvoiceTable(doc, data, k) ==
  IF ~doc.ok THEN doc
  ELSE IF k = 0 THEN [doc EXCEPT !.ok = FALSE, !.err = "TableNotFound"]
  ELSE [doc EXCEPT !.body.tables[k] = FillTable(@, data.items, {4, 5}, data.currency)]

\* updateCreditNoteTable(body, data), k the table it found: without a table
\* it returns, and nothing it throws leaves it.
UpdateCreditNoteTable(doc, data, k) ==
  IF ~doc.ok \/ k = 0 THEN doc
  ELSE [doc EXCEPT !.body.tables[k] = FillTable(@, data.items, {3}, data.currency)]

\* handleExchangeRateSection / handleCreditNoteExchangeRateSection: the two
\* placeholders are filled for "$", the notice goes for any other currency.
HandleExchangeRateSection(doc, data) ==
  IF ~doc.ok THEN doc
  ELSE IF data.currency # "$" THEN [doc EXCEPT !.body.notice = FALSE]
  ELSE [doc EXCEPT !.body.text = @ \ {"Exchange Rate", "Amount in EUR"}]

InvoicePlaceholders ==
  {"Project Name", "Client Name", "Client Address", "Client Number",
   "Invoice Number", "Invoice Date", "Due date", "VAT%", "VAT Amount", "Total",
   "Bank Details 1", "Bank Details 2", "Comment"}

CreditNotePlaceholders ==
  {"CN Number", "Client Name", "Client Address", "Client Number", "CN Date",
   "VAT%", "VAT Amount", "Total", "Comment"}

\* The item placeholders replaceDocumentPlaceholders fills: those of the
\* first MAX_ROWS items, rate and amount only when the cell is not empty.
ItemPlaceholders(items) ==
  UNION { {"Work-" \o ToString(i), "Period-" \o ToString(i), "Hours-" \o ToString(i)}
          \cup (IF At(items[i], 4) # "" THEN {"Rate-" \o ToString(i)} ELSE {})
          \cup (IF At(items[i], 5) # "" THEN {"Amount-" \o ToString(i)} ELSE {}) :
          i \in {j \in 1..Len(items) : j <= MAX_ROWS} }

\* replaceDocumentPlaceholders, then doc.saveAndClose().
ReplaceDocumentPlaceholders(doc, data) ==
  IF ~doc.ok THEN doc
  ELSE [doc EXCEPT !.body.text = (@ \ InvoicePlaceholders) \ ItemPlaceholders(data.items),
                   !.saved = TRUE]

\* replaceCreditNoteDocumentPlaceholders, then doc.saveAndClose().
ReplaceCreditNoteDocumentPlaceholders(doc, data) ==
  IF ~doc.ok THEN doc
  ELSE [doc EXCEPT !.body.text = @ \ CreditNotePlaceholders, !.saved = TRUE]

\* template.makeCopy and DocumentApp.openById: the body of the copy.
OpenCopy(templateId, template) ==
  IF Falsy(templateId)
  THEN [ok |-> FALSE, err |-> "NoTemplateId", body |-> template, saved |-> FALSE]
  ELSE [ok |-> TRUE, err |-> "", body |-> template, saved |-> FALSE]

\* createInvoiceDoc: the document, or the error it throws.
CreateInvoiceDoc(templateId, template, data) ==
  ReplaceDocumentPlaceholders(
    UpdateInvoiceTable(HandleExchangeRateSection(OpenCopy(templateId, template), data),
                       data, FindInvoiceTable(template.tables)),
    data)

\* createCreditNoteDoc: the document, or the error it throws.
CreateCreditNoteDoc(templateId, template, data) ==
  ReplaceCreditNoteDocumentPlaceholders(
    UpdateCreditNoteTable(HandleExchangeRateSection(OpenCopy(templateId, template), data),
                          data, FindCreditNoteTable(template.tables)),
    data)

\* Header rows of template tables: the two signatures as written, in other
\* spellings, and headers that are neither.
TemplateHeaders ==
  { <<"#", "Services", "Period", "Quantity", "Rate/hour", "Amount">>,
    <<" # ", "Services", "Period ", "Quantity", "Rate/hour", " Amount">>,
    <<"#", "Services", "Period", "Quantity", "Rate/hour", "Amount", "Notes">>,
    <<"#", "services", "Period", "Quantity", "Rate/hour", "Amount">>,
    <<"#", "Description", "Period", "Amount">>,
    <<"No", "Services rendered", "PERIOD", "Total amount">>,
    <<"Item", "Price">> }

TemplateTables ==
  {<<h>> : h \in TemplateHeaders}
  \cup {<<h, [i \in 1..Len(h) |-> "old"]>> : h \in TemplateHeaders}

TemplateTexts ==
  { InvoicePlaceholders \cup CreditNotePlaceholders
      \cup {"Exchange Rate", "Amount in EUR", "Work-1", "Rate-1", "Amount-1", "Work-2"},
    {"VAT%", "Total", "Footer"} }

Templates ==
  { [tables |-> ts, text |-> tx, notice |-> TRUE] :
      ts \in {<<>>} \cup {<<t>> : t \in TemplateTables}
               \cup {<<t1, t2>> : t1 \in TemplateTables, t2 \in TemplateTables},
      tx \in TemplateTexts }

DocInvoices == ValidInvoices \cup {[BaseInvoice EXCEPT !.items = <<>>]}
DocCreditNotes == ValidCreditNotes \cup {[BaseCreditNote EXCEPT !.items = <<>>]}
TemplateIds == {"tpl-1", ""}

DocInit ==
  /\ sheet = [t \in Tables |-> <<>>]
  /\ cache = [k \in CacheKeys |-> Null]
  /\ files = {}
  /\ trashed = {}
  /\ nextId = 1
  /\ nextDoc = 1
  /\ rt = "document"
  /\ calls = 0
  /\ last = Call("init", "", NoData, TRUE, "", <<>>, <<>>)
  /\ run = Idle

\* A render is recorded with its template id, its data, the template it
\* copied and the document or error r it gave.
Rendered(op, templateId, template, data, r) ==
  /\ calls' = calls + 1
  /\ last' = Call(op, templateId, data, r.ok, r.err, <<>>,
                  [template |-> template, body |-> r.body, saved |-> r.saved])
  /\ UNCHANGED <<sheet, cache, files, trashed, nextId, nextDoc, rt, run>>

\* createInvoiceDoc(data, ..., templateId, folderId)
RenderInvoice ==
  /\ calls = 0
  /\ \E templateId \in TemplateIds, template \in Templates, data \in DocInvoices :
       Rendered("renderInvoice", templateId, template, data,
                CreateInvoiceDoc(templateId, template, data))

\* createCreditNoteDoc(data, ..., templateId, folderId)
RenderCreditNote ==
  /\ calls = 0
  /\ \E templateId \in TemplateIds, template \in Templates, data \in DocCreditNotes :
       Rendered("renderCreditNote", templateId, template, data,
                CreateCreditNoteDoc(templateId, template, data))

DocNext ==
  \/ RenderInvoice
  \/ RenderCreditNote

DocSpec == DocInit /\ [][DocNext]_vars

\* No table of the template has the invoice signature / the credit note
\* signature.
NoInvoiceTable(template) ==
  \A k \in 1..Len(template.tables) : ~IsInvoiceTable(HeadersOf(template.tables[k]))

NoCreditNoteTable(template) ==
  \A k \in 1..Len(template.tables) : ~IsCreditNoteTable(HeadersOf(template.tables[k]))

\* C15: when no table of the copied template has the item-table header
\* signature, the render of an invoice fails with TableNotFound and returns no
\* document, and the render of a credit note succeeds, leaves every table as
\* the template has it (no item row written) and has replaced every credit
\* note placeholder.
C15_MissingItemTable ==
  /\ (last.op = "renderInvoice" /\ last.id # "" /\ NoInvoiceTable(last.out.template)) =>
        /\ ~last.ok /\ last.err = "TableNotFound"
        /\ ~last.out.saved
  /\ (last.op = "renderCreditNote" /\ last.id # ""
        /\ NoCreditNoteTable(last.out.template)) =>
        /\ last.ok /\ last.out.saved
        /\ last.out.body.tables = last.out.template.tables
        /\ last.out.body.text \cap CreditNotePlaceholders = {}
        /\ last.out.body.text
             = (last.out.template.text \ CreditNotePlaceholders)
                 \ (IF last.data.currency = "$"
                    THEN {"Exchange Rate", "Amount in EUR"} ELSE {})

C15_CreditNoteWithoutItemTable ==
  /\ last.op = "renderCreditNote" /\ last.ok
  /\ Len(last.data.items) = 2
  /\ Len(last.out.template.tables) = 2
  /\ NoCreditNoteTable(last.out.template)
  /\ ~NoInvoiceTable(last.out.template)
  /\ "CN Number" \in last.out.template.text

\* ------------------------------------------------------------ lookups
\* The reads by id and the callers that look a record up before they act,
\* applied to tables of any content.

\* A faulty catch block: the error is passed on, as the write functions do.
Rethrown(threw, value, fallback) ==
  [threw |-> threw, out |-> IF threw THEN fallback ELSE value]

\* try { ... return value } catch (error) { ...; return fallback }
Caught(threw, value, fallback) ==
  [threw |-> FALSE, out |-> IF threw THEN fallback ELSE value]

\* getContractDataByIdFromData: null for a blank id, an id in no row and a
\* failed read.
GetContractDataByIdFromData(rows, id, readFails) ==
  LET hits == {i \in 1..Len(rows) : At(rows[i], 0) = id}
  IN IF BlankStr(id) \/ readFails \/ hits = {} THEN [kind |-> "null"]
     ELSE LET row == rows[CHOOSE i \in hits : \A j \in hits : i <= j]
          IN [kind |-> "record", id |-> At(row, 0),
              contractorName |-> At(row, 2), contractNumber |-> At(row, 3)]

\* deleteInvoiceWithCleanup / deleteCreditNoteWithCleanup: the record is
\* looked up first and counts as not found when the lookup gave nothing or
\* an object whose projectName is empty.
DeleteWithCleanup(st, id, found, deleted) ==
  IF Falsy(id) \/ Trim(id) = "" THEN Failure(st, "IdRequired", id)
  ELSE IF found.kind = "null" \/ Falsy(found.projectName)
  THEN Failure(st, "NotFound", id)
  ELSE deleted

DeleteInvoiceWithCleanup(st, id, readFails, env) ==
  DeleteWithCleanup(st, id,
                    GetInvoiceDataByIdFromData(st.sheet["invoice"], id, readFails),
                    DeleteInvoiceByIdFromData(st, id, env))

DeleteCreditNoteWithCleanup(st, id, readFails, env) ==
  DeleteWithCleanup(st, id,
                    GetCreditNoteDataByIdFromData(st.sheet["creditNote"], id, readFails),
                    DeleteCreditNoteByIdFromData(st, id, env))

\* A row that holds an id and nothing else.
BlankRow(t, id) ==
  IF t = "contract" THEN <<id, "", "", "">>
  ELSE [k \in 1..Len(Headers(t)) |-> IF k = 1 THEN id ELSE ""]

\* The rows a table may hold under an id: rows as the creates write them
\* and a row whose other cells are blank.
RowsWithId(t, n) ==
  {BlankRow(t, Uuid(n))} \cup
  CASE t = "invoice" ->
         {InvoiceCreateRow(Uuid(n), BaseInvoice),
          InvoiceCreateRow(Uuid(n), [BaseInvoice EXCEPT !.currency = "EUR",
                                       !.items = <<InvoiceItemB, InvoiceItemA>>])}
    [] t = "creditNote" ->
         {CreditNoteCreateRow(Uuid(n), BaseCreditNote),
          CreditNoteCreateRow(Uuid(n), [BaseCreditNote EXCEPT !.tax = "7.5",
                                          !.subtotal = "80"])}
    [] t = "contract" -> {<<Uuid(n), "https://docs/d1", "Carol", "K-1">>}

\* Tables of up to two rows with different ids, in either order.
TablesOf(t) ==
  {<<>>} \cup {<<r>> : r \in RowsWithId(t, 1) \cup RowsWithId(t, 2)}
  \cup {<<r1, r2>> : r1 \in RowsWithId(t, 1), r2 \in RowsWithId(t, 2)}
  \cup {<<r2, r1>> : r1 \in RowsWithId(t, 1), r2 \in RowsWithId(t, 2)}

LookupIds == IdInputs \cup {" ", Uuid(MaxCreates + 1)}

LookupInit ==
  /\ rt \in Tables
  /\ \E rows \in TablesOf(rt) : sheet = [t \in Tables |-> IF t = rt THEN rows ELSE <<>>]
  /\ cache = [k \in CacheKeys |-> Null]
  /\ files = {}
  /\ trashed = {}
  /\ nextId = 3
  /\ nextDoc = 1
  /\ calls = 0
  /\ last = Call("init", "", NoData, TRUE, "", <<>>, <<>>)
  /\ run = Idle

\* A read by id changes nothing; the call is recorded with the tables it
\* read, whether the storage failed, and what came back or was raised.
ReadById(id, readFails, r) ==
  /\ Becomes(St)
  /\ last' = Call("getById", id, sheet, ~r.threw, IF r.threw THEN "Raised" ELSE "",
                  IF readFails THEN <<"readFails">> ELSE <<>>, r.out)

\* getInvoiceDataById(id)
GetInvoiceDataById ==
  /\ rt = "invoice"
  /\ CanCall
  /\ \E id \in LookupIds, readFails \in BOOLEAN :
       ReadById(id, readFails,
                Caught(readFails,
                       GetInvoiceDataByIdFromData(sheet["invoice"], id, readFails),
                       NoRecord("empty")))

\* getCreditNoteDataById(id)
GetCreditNoteDataById ==
  /\ rt = "creditNote"
  /\ CanCall
  /\ \E id \in LookupIds, readFails \in BOOLEAN :
       ReadById(id, readFails,
                Caught(readFails,
                       GetCreditNoteDataByIdFromData(sheet["creditNote"], id, readFails),
                       NoRecord("null")))

\* getContractDataByIdFromData(id)
GetContractDataById ==
  /\ rt = "contract"
  /\ CanCall
  /\ \E id \in LookupIds, readFails \in BOOLEAN :
       ReadById(id, readFails,
                Caught(readFails,
                       GetContractDataByIdFromData(sheet["contract"], id, readFails),
                       [kind |-> "null"]))

\* A delete through the validating wrapper: the call is recorded with the
\* tables it found.
CleanedUp(id, readFails, r) ==
  /\ Becomes(r.st)
  /\ last' = Call("deleteWithCleanup", id, sheet, r.ok, r.err,
                  IF readFails THEN <<"readFails">> ELSE <<>>, <<>>)

\* deleteInvoiceWithCleanup(id)
InvoiceCleanup ==
  /\ rt = "invoice"
  /\ CanCall
  /\ \E id \in LookupIds, readFails \in BOOLEAN, env \in TrashEnvs :
       CleanedUp(id, readFails, DeleteInvoiceWithCleanup(St, id, readFails, env))

\* deleteCreditNoteWithCleanup(id)
CreditNoteCleanup ==
  /\ rt = "creditNote"
  /\ CanCall
  /\ \E id \in LookupIds, readFails \in BOOLEAN, env \in TrashEnvs :
       CleanedUp(id, readFails, DeleteCreditNoteWithCleanup(St, id, readFails, env))

\* getInvoiceListWithCaching()
InvoiceListWithCaching ==
  /\ rt = "invoice"
  /\ CanCall
  /\ \E readFails \in BOOLEAN :
       ListCall("invoiceList", GetInvoiceListWithCaching(St, readFails))

LookupNext ==
  \/ GetInvoiceDataById
  \/ GetCreditNoteDataById
  \/ GetContractDataById
  \/ GetInvoiceList
  \/ GetCreditNoteList
  \/ GetCreditNotesList
  \/ GetContractList
  \/ InvoiceListWithCaching
  \/ InvoiceCleanup
  \/ CreditNoteCleanup

LookupSpec == LookupInit /\ [][LookupNext]_vars

\* What the four list views would return now if the storage failed, and the
\* tables they would leave.
FailedLists ==
  { GetInvoiceListFromData(St, TRUE), GetCreditNoteListFromData(St, TRUE),
    GetCreditNotesListFromData(St, TRUE), GetContractListFromData(St, TRUE) }

\* C16: no list and no read by id raises, whatever the table holds, whatever
\* the id is and whether or not the storage fails; a read by id that finds
\* nothing or fails returns the empty object or null, a list whose read fails
\* returns the empty list (or the list still cached), and none of them changes
\* a table.
C16_ReadsNeverRaise ==
  /\ last.op = "getById" =>
       /\ last.ok /\ last.err = ""
       /\ sheet = last.data
       /\ (last.note # <<>> \/ BlankStr(last.id) \/ ~HasId(sheet[rt], last.id))
            => last.out.kind = (IF rt = "invoice" THEN "empty" ELSE "null")
  /\ last.op \in {"listHit", "listMiss"} => last.ok
  /\ \A r \in FailedLists :
       /\ r.st.sheet = sheet
       /\ r.st = St
       /\ ~r.hit => r.out = <<>>

C16_FailedReadOfExistingRow ==
  /\ last.op = "getById" /\ last.note = <<"readFails">>
  /\ rt = "creditNote"
  /\ Len(sheet[rt]) = 2
  /\ HasId(sheet[rt], last.id)
  /\ last.out = NoRecord("null")

\* C17: a read by id for an id in no row returns a not-found value that
\* differs from what it returns for any row that exists, a row with blank
\* cells included, and the deletes that look the record up first report it
\* as not found only when no row has the id.
C17_NotFoundOnlyWhenAbsent ==
  /\ (last.op = "getById" /\ last.note = <<>>) =>
       (last.out.kind \in {"empty", "null"}) <=>
          (BlankStr(last.id) \/ ~HasId(sheet[rt], last.id))
  /\ (last.op = "deleteWithCleanup" /\ last.note = <<>> /\ last.err = "NotFound") =>
       ~HasId(last.data[rt], last.id)

\* The file behind a link cell is still in Drive after the step.
StillInDrive(url) ==
  /\ ExtractFileIdFromUrl(url).ok
  /\ ExtractFileIdFromUrl(url).id \in files'

CreateStages ==
  << "Validate", "ResolveConfig", "EncodeRow", "PersistRow", "Render", "Export",
     "BackfillLinks", "InvalidateCache" >>

\* updateInvoiceByIdFromData
UpdateInvoiceStages ==
  << "LookupRow", "TrashOld", "ResolveConfig", "Render", "Export", "EncodeRow",
     "PersistRow", "InvalidateCache" >>

\* updateCreditNoteByIdFromData
UpdateCreditNoteStages ==
  << "LookupRow", "EncodeRow", "TrashOld", "ResolveConfig", "Render", "Export",
     "PersistRow", "InvalidateCache" >>

\* getInvoiceListFromData / getCreditNoteListFromData
ListStages == << "CheckCache", "ReadTable", "PutCache" >>

Stages ==
  IF run.kind = "create" THEN CreateStages
  ELSE IF run.kind = "list" THEN ListStages
  ELSE IF rt = "invoice" THEN UpdateInvoiceStages ELSE UpdateCreditNoteStages

\* The stage the invocation performs next.
NextStage ==
  IF run.kind = "idle" \/ run.pc > Len(Stages) THEN "none" ELSE Stages[run.pc]

\* The stage is done, r being the locals it leaves.
Advance(r) == [r EXCEPT !.pc = @ + 1, !.trace = Append(@, NextStage)]

\* The stage threw or returned the failure: the invocation ends.
Stop(err) ==
  [run EXCEPT !.pc = Len(Stages) + 1, !.trace = Append(@, NextStage), !.err = err]

LinkCol(t) == IF t = "invoice" THEN 20 ELSE 17

\* The forms and environments of the staged invocation.
StagedCalls ==
  IF rt = "invoice"
  THEN { <<BaseInvoice, EnvOk>>, <<BaseInvoice, Env("noTable", "ok", FALSE, FALSE)>>,
         <<BaseInvoice, Env("ok", "null", TRUE, FALSE)>>,
         <<[BaseInvoice EXCEPT !.subtotal = "abc"], EnvOk>>,
         <<[BaseInvoice EXCEPT !.projectName = "Ghost"], EnvOk>> }
  ELSE { <<BaseCreditNote, EnvOk>>,
         <<BaseCreditNote, Env("ok", "null", TRUE, FALSE)>>,
         <<[BaseCreditNote EXCEPT !.clientName = " "], EnvOk>>,
         <<[BaseCreditNote EXCEPT !.projectName = "Ghost"], EnvOk>> }

StagedInit == Init /\ rt \in RecTypes

\* processForm(data) / processCreditNoteForm(data) is called.
BeginCreate ==
  /\ run = Idle
  /\ \E c \in StagedCalls :
       run' = [Idle EXCEPT !.kind = "create", !.pc = 1, !.data = c[1], !.env = c[2]]
  /\ UNCHANGED <<sheet, cache, files, trashed, nextId, nextDoc, rt, calls, last>>

\* updateInvoiceById(id, data) / updateCreditNoteById(data) is called.
BeginUpdate ==
  /\ run = Idle
  /\ \E id \in IdInputs, c \in StagedCalls :
       run' = [Idle EXCEPT !.kind = "update", !.pc = 1, !.id = id,
                           !.data = c[1], !.env = c[2]]
  /\ UNCHANGED <<sheet, cache, files, trashed, nextId, nextDoc, rt, calls, last>>

\* validateInvoiceData / validateCreditNoteData
Validate ==
  /\ NextStage = "Validate"
  /\ run' = IF Len(IF rt = "invoice" THEN ValidateInvoiceData(run.data)
                   ELSE ValidateCreditNoteData(run.data)) # 0
            THEN Stop("Validation") ELSE Advance(run)
  /\ UNCHANGED <<sheet, cache, files, trashed, nextId, nextDoc, rt, calls, last>>

\* The template the render copies: the form's for an invoice create, the
\* resolved one for an invoice update, the fixed one for credit notes.
TemplateIdOf(details) ==
  IF rt = "creditNote" THEN CreditNoteTemplateId
  ELSE IF run.kind = "create" THEN run.data.templateId ELSE details.templateId

\* The outcome of the config resolution, details.
Resolve(details) ==
  IF details.ok THEN Advance([run EXCEPT !.templateId = TemplateIdOf(details)])
  ELSE Stop(details.err)

\* getProjectDetailsWithValidation in a create, getProjectDetailsFromData in
\* an update.
ResolveConfig ==
  /\ NextStage = "ResolveConfig"
  /\ run' = Resolve(IF run.kind = "create"
                    THEN GetProjectDetailsWithValidation(ListsTable, run.data.projectName)
                    ELSE GetProjectDetailsFromData(ListsTable, run.data.projectName))
  /\ UNCHANGED <<sheet, cache, files, trashed, nextId, nextDoc, rt, calls, last>>

\* The row a create builds for a fresh id; the row an update builds over the
\* row it found (the credit note update before it knows the new links).
EncodeRow ==
  /\ NextStage = "EncodeRow"
  /\ nextId' = IF run.kind = "create" THEN nextId + 1 ELSE nextId
  /\ run' = Advance(
       IF run.kind = "create"
       THEN [run EXCEPT !.id = Uuid(nextId),
                        !.row = IF rt = "invoice"
                                THEN InvoiceCreateRow(Uuid(nextId), run.data)
                                ELSE CreditNoteCreateRow(Uuid(nextId), run.data)]
       ELSE IF rt = "invoice"
       THEN [run EXCEPT !.row = InvoiceUpdateRow(run.headers, run.id, run.data,
                                                 DocUrl(run.n), PdfUrl(run.n))]
       ELSE [run EXCEPT !.row = CreditNoteUpdateRow(
                                  run.headers, run.row, [run.data EXCEPT !.id = run.id],
                                  At(run.row, IndexOf(run.headers, "Google Doc Link")),
                                  At(run.row, IndexOf(run.headers, "PDF Link")))])
  /\ UNCHANGED <<sheet, cache, files, trashed, nextDoc, rt, calls, last>>

\* The row with the links of the document and the PDF just made.
Linked(headers, row, n) ==
  [k \in 1..Len(row) |->
     IF k = IndexOf(headers, "Google Doc Link") + 1 THEN DocUrl(n)
     ELSE IF k = IndexOf(headers, "PDF Link") + 1 THEN PdfUrl(n)
     ELSE row[k]]

\* setValues: a create writes at getLastRow() + 1 and remembers the
\* position; an update writes at the position its lookup found.
PersistRow ==
  /\ NextStage = "PersistRow"
  /\ sheet' = [sheet EXCEPT ![rt] =
                 IF run.kind = "create"
                 THEN SetRowValues(@, GetLastRow(@) + 1, run.row)
                 ELSE SetRowValues(@, run.at, Linked(run.headers, run.row, run.n))]
  /\ run' = Advance(IF run.kind = "create"
                    THEN [run EXCEPT !.at = GetLastRow(sheet[rt]) + 1] ELSE run)
  /\ UNCHANGED <<cache, files, trashed, nextId, nextDoc, rt, calls, last>>

\* The outcome of a render or an export, doc.
Produced(doc) == IF doc.ok THEN Advance([run EXCEPT !.n = doc.n]) ELSE Stop(doc.err)

\* createInvoiceDoc / createCreditNoteDoc
RenderDocument ==
  /\ NextStage = "Render"
  /\ \E doc \in {CreateDoc(St, rt, run.templateId, run.env.tpl)} :
       /\ files' = doc.st.files
       /\ nextDoc' = doc.st.nextDoc
       /\ run' = Produced(doc)
  /\ UNCHANGED <<sheet, cache, trashed, nextId, rt, calls, last>>

\* doc.getAs("application/pdf") and folder.createFile(pdf)
ExportDocument ==
  /\ NextStage = "Export"
  /\ \E pdf \in {ExportPdf([st |-> St, ok |-> TRUE, err |-> "", n |-> run.n],
                           run.env.pdf)} :
       /\ files' = pdf.st.files
       /\ run' = Produced(pdf)
  /\ UNCHANGED <<sheet, cache, trashed, nextId, nextDoc, rt, calls, last>>

\* sheet.getRange(newRowIndex, 20).setValue(doc.getUrl()) and the PDF link
\* next to it: the cells at the position remembered from PersistRow.
BackfillLinks ==
  /\ NextStage = "BackfillLinks"
  /\ sheet' = [sheet EXCEPT ![rt] =
                 SetCell(SetCell(@, run.at, LinkCol(rt), DocUrl(run.n)),
                         run.at, LinkCol(rt) + 1, PdfUrl(run.n))]
  /\ run' = Advance(run)
  /\ UNCHANGED <<cache, files, trashed, nextId, nextDoc, rt, calls, last>>

\* CacheService.getScriptCache().remove(key)
InvalidateCache ==
  /\ NextStage = "InvalidateCache"
  /\ cache' = [cache EXCEPT ![ListKey(rt)] = Null]
  /\ run' = Advance(run)
  /\ UNCHANGED <<sheet, files, trashed, nextId, nextDoc, rt, calls, last>>

\* The outcome of the lookup in the values read, table.
Found(table, rowIndex) ==
  IF BlankStr(run.id) THEN Stop("InvalidId")
  ELSE IF rowIndex = 0 - 1 THEN Stop("NotFound")
  ELSE Advance([run EXCEPT !.at = rowIndex + 1, !.headers = table[1],
                           !.row = table[rowIndex + 1]])

\* An update reads the table and looks for the row with the id.
LookupRow ==
  /\ NextStage = "LookupRow"
  /\ \E table \in {Values(sheet[rt], rt)} :
       run' = Found(table, FindRowById(table, IndexOf(table[1], "ID"), run.id))
  /\ UNCHANGED <<sheet, cache, files, trashed, nextId, nextDoc, rt, calls, last>>

\* An update trashes the document and the PDF the row linked.
TrashOldFiles ==
  /\ NextStage = "TrashOld"
  /\ \E st \in {TrashOldArtifacts(St, run.headers, run.row, run.env)} :
       /\ files' = st.files
       /\ trashed' = st.trashed
  /\ run' = Advance(run)
  /\ UNCHANGED <<sheet, cache, nextId, nextDoc, rt, calls, last>>

\* getInvoiceList() / getCreditNoteList() is called.
BeginList ==
  /\ run = Idle
  /\ run' = [Idle EXCEPT !.kind = "list", !.pc = 1]
  /\ UNCHANGED <<sheet, cache, files, trashed, nextId, nextDoc, rt, calls, last>>

\* cache.get(key): a cached list is parsed and returned.
CheckCache ==
  /\ NextStage = "CheckCache"
  /\ run' = IF cache[ListKey(rt)] # Null
            THEN Stop("") ELSE Advance(run)
  /\ UNCHANGED <<sheet, cache, files, trashed, nextId, nextDoc, rt, calls, last>>

\* The list of the rows of a table, as the list view of its type maps them.
ListOf(rows) == IF rt = "invoice" THEN InvoiceListOf(rows) ELSE CreditNoteListOf(rows)

\* sheet.getDataRange().getValues() and the list built from the values: a
\* failed read and a table without data rows return the empty list at once.
ReadTable ==
  /\ NextStage = "ReadTable"
  /\ \E readFails \in BOOLEAN :
       run' = IF readFails THEN Stop("ReadFailed")
              ELSE IF Len(sheet[rt]) + 1 < 2 THEN Stop("")
              ELSE Advance([run EXCEPT !.row = ListOf(sheet[rt])])
  /\ UNCHANGED <<sheet, cache, files, trashed, nextId, nextDoc, rt, calls, last>>

\* cache.put(key, JSON.stringify(result), 300), and the list is returned.
PutCache ==
  /\ NextStage = "PutCache"
  /\ cache' = [cache EXCEPT ![ListKey(rt)] = JsonStringify(run.row)]
  /\ run' = Advance(run)
  /\ UNCHANGED <<sheet, files, trashed, nextId, nextDoc, rt, calls, last>>

\* Another invocation creates a record of the same table.
OtherInsert ==
  /\ CanCreate
  /\ Created(IF rt = "invoice" THEN BaseInvoice ELSE BaseCreditNote,
             IF rt = "invoice" THEN ProcessInvoiceCreation(St, BaseInvoice, EnvOk)
             ELSE ProcessCreditNoteCreation(St, BaseCreditNote, EnvOk))

\* Another invocation deletes a record of the same table.
OtherDelete ==
  /\ CanCall
  /\ \E id \in IdInputs :
       Returns("delete", id, NoData, DeleteByIdFromData(St, rt, id, EnvOk))

StagedNext ==
  \/ BeginCreate
  \/ BeginUpdate
  \/ Validate
  \/ ResolveConfig
  \/ EncodeRow
  \/ PersistRow
  \/ RenderDocument
  \/ ExportDocument
  \/ BackfillLinks
  \/ InvalidateCache
  \/ LookupRow
  \/ TrashOldFiles
  \/ BeginList
  \/ CheckCache
  \/ ReadTable
  \/ PutCache
  \/ OtherInsert
  \/ OtherDelete

StagedSpec == StagedInit /\ [][StagedNext]_vars

\* The order of the stages of a create and of an update.
StageOrder ==
  << "Validate", "ResolveConfig", "EncodeRow", "PersistRow", "Render", "Export",
     "BackfillLinks", "InvalidateCache" >>

\* The place of a stage in that order (0: it is not one of them).
Position(stage) ==
  IF \E k \in 1..Len(StageOrder) : StageOrder[k] = stage
  THEN CHOOSE k \in 1..Len(StageOrder) : StageOrder[k] = stage ELSE 0

\* The invocation has ended without a failure.
Completed == run.kind # "idle" /\ run.pc > Len(Stages) /\ run.err = ""

\* C19: the stages a create or an update has performed so far are stages of
\* the order Validate, ResolveConfig, EncodeRow, PersistRow, Render, Export,
\* BackfillLinks, InvalidateCache, each after the ones before it, and an
\* execution that completes has performed all eight.
C19_StagesInOrder ==
  run.kind \in {"create", "update"} =>
    /\ \A i \in 1..Len(run.trace) : \A j \in 1..Len(run.trace) :
         (i < j /\ Position(run.trace[i]) # 0 /\ Position(run.trace[j]) # 0)
           => Position(run.trace[i]) < Position(run.trace[j])
    /\ Completed => run.trace = StageOrder

\* C20: once a create has written its links back, every row that holds the
\* link of its document or of its PDF is the row with the id it generated,
\* and that row, if it is still in the table, holds both links.
C20_LinksInRowOfGeneratedId ==
  (run.kind = "create" /\ run.pc > 7 /\ run.err = "") =>
    /\ \A i \in 1..Len(sheet[rt]) :
         (DocLink(sheet[rt][i]) = DocUrl(run.n) \/ PdfLink(sheet[rt][i]) = PdfUrl(run.n))
           => IdOf(sheet[rt][i]) = run.id
    /\ \A i \in 1..Len(sheet[rt]) :
         IdOf(sheet[rt][i]) = run.id
           => /\ DocLink(sheet[rt][i]) = DocUrl(run.n)
              /\ PdfLink(sheet[rt][i]) = PdfUrl(run.n)

\* ------------------------------------------------------------ item block
\* The row of the record the latest call was about.
LastRow == sheet[rt][RowAt(sheet[rt], last.id)]

\* The cells of slot k (1-based) of the item block of a row.
SlotOf(row, k) ==
  Slice(row, ItemsStart(rt) + (k - 1) * ColumnsPerRow(rt),
        ItemsStart(rt) + k * ColumnsPerRow(rt))

\* The latest call was a create or an update that wrote its row.
Persisted ==
  /\ rt \in RecTypes
  /\ last.op \in {"create", "update"}
  /\ last.ok
  /\ HasId(sheet[rt], last.id)

\* C21: in the row a create or an update persisted, slot k of the item
\* block holds the k-th submitted item, its first cell being k whatever the
\* caller put there (a period cell may carry the escape marker).
C21_ItemsStampedInOrder ==
  Persisted =>
    \A k \in 1..Len(last.data.items) :
      k <= MAX_ROWS =>
        /\ SlotOf(LastRow, k)[1] = ToString(k)
        /\ \A c \in 2..ColumnsPerRow(rt) :
             \/ SlotOf(LastRow, k)[c] = last.data.items[k][c]
             \/ c = 3 /\ SlotOf(LastRow, k)[c] = "'" \o last.data.items[k][c]

\* Cell c (1-based) of slot k of the item block of a row; blank when the
\* row ends before it.
SlotCell(row, k, c) == At(row, ItemsStart(rt) + (k - 1) * ColumnsPerRow(rt) + c - 1)

\* The cells of the row from index `from` (0-based) on are blank.
BlankFrom(row, from) == \A j \in 1..Len(row) : j > from => row[j] = ""

\* C22: the item block of the row a create or an update persisted holds the
\* first min(n, MAX_ROWS) submitted items, the slots after them are blank,
\* and no cell beyond the MAX_ROWS slots of the block is written.
C22_ItemBlockTruncatedAndPadded ==
  Persisted =>
    /\ \A k \in 1..MAX_ROWS : \A c \in 2..ColumnsPerRow(rt) :
         IF k <= Len(last.data.items)
         THEN \/ SlotCell(LastRow, k, c) = last.data.items[k][c]
              \/ c = 3 /\ SlotCell(LastRow, k, c) = "'" \o last.data.items[k][c]
         ELSE SlotCell(LastRow, k, c) = ""
    /\ \A k \in 1..MAX_ROWS :
         k > Len(last.data.items) => SlotCell(LastRow, k, 1) = ""
    /\ BlankFrom(LastRow, ItemsStart(rt) + MAX_ROWS * ColumnsPerRow(rt))

\* ------------------------------------------------------------ item table
\* The fixed label signature of the invoice item table.
InvoiceSignature == <<"#", "Services", "Period", "Quantity", "Rate/hour", "Amount">>

\* The tables of a template whose trimmed header row is the signature, cell
\* for cell.
ExactTables(template) ==
  {k \in 1..Len(template.tables) : HeadersOf(template.tables[k]) = InvoiceSignature}

\* C23: an invoice render fills the first table of the template whose
\* trimmed header row is exactly the six labels of the signature and leaves
\* every other table as it is; when no table has exactly that header row,
\* no table is chosen and the render fails with TableNotFound.
C23_AnchorHasExactSignature ==
  (last.op = "renderInvoice" /\ last.id # "") =>
    IF ExactTables(last.out.template) = {}
    THEN ~last.ok /\ last.err = "TableNotFound"
    ELSE /\ last.ok
         /\ \A k \in 1..Len(last.out.template.tables) :
              IF /\ k \in ExactTables(last.out.template)
                 /\ \A j \in ExactTables(last.out.template) : k <= j
              THEN /\ Len(last.out.body.tables[k]) = 1 + Len(last.data.items)
                   /\ last.out.body.tables[k][1] = last.out.template.tables[k][1]
              ELSE last.out.body.tables[k] = last.out.template.tables[k]

\* ------------------------------------------------------------ live header
\* The row a create and an update leave in a sheet whose header row carries
\* the columns in another order than the create functions wrote them.

\* Columns i and j of a header row exchanged.
SwapColumns(headers, i, j) ==
  [k \in 1..Len(headers) |->
     IF k = i THEN headers[j] ELSE IF k = j THEN headers[i] ELSE headers[k]]

\* The first n columns of a header row in reverse order.
ReverseColumns(headers, n) ==
  [k \in 1..Len(headers) |-> IF k <= n THEN headers[n + 1 - k] ELSE headers[k]]

BaseHeaders(t) == IF t = "invoice" THEN InvoiceBaseHeaders ELSE CreditNoteBaseHeaders

\* Header rows of a live sheet: the columns as written, and permutations of
\* the fixed columns.
LiveHeaders(t) ==
  { Headers(t),
    SwapColumns(Headers(t), 1, 2),
    SwapColumns(Headers(t), 2, Len(BaseHeaders(t))),
    SwapColumns(Headers(t), Len(BaseHeaders(t)) - 1, Len(BaseHeaders(t))),
    ReverseColumns(Headers(t), Len(BaseHeaders(t))) }

LiveForms(t) ==
  IF t = "invoice" THEN ValidInvoices \cup UnresolvedInvoices
  ELSE ValidCreditNotes \cup UnresolvedCreditNotes

\* The sheet row a create leaves: the row written at the new position, then
\* the two links written into the link columns of that position.
CreatedRow(t, uniqueId, data, n) ==
  SetCell(SetCell(SetRowValues(<<>>, 2,
                               IF t = "invoice" THEN InvoiceCreateRow(uniqueId, data)
                               ELSE CreditNoteCreateRow(uniqueId, data)),
                  2, LinkCol(t), DocUrl(n)),
          2, LinkCol(t) + 1, PdfUrl(n))[1]

\* A row of an earlier version of the record, its cells under the columns
\* of the live header row.
StoredRow(t, headers, uniqueId, data) ==
  [k \in 1..Len(headers) |->
     At(CreatedRow(t, uniqueId, data, 1), IndexOf(Headers(t), headers[k]))]

\* The sheet row an update leaves over the row it found.
UpdatedRow(t, headers, id, data, n) ==
  IF t = "invoice" THEN InvoiceUpdateRow(headers, id, data, DocUrl(n), PdfUrl(n))
  ELSE CreditNoteUpdateRow(headers,
                           StoredRow(t, headers, id,
                                     [BaseCreditNote EXCEPT !.comment = "old"]),
                           [data EXCEPT !.id = id], DocUrl(n), PdfUrl(n))

CodecInit == Init /\ rt \in RecTypes

\* The row is recorded with the header row it was written under.
Encoded(op, headers, data, row) ==
  /\ calls' = calls + 1
  /\ last' = Call(op, Uuid(1), data, TRUE, "", <<>>, [headers |-> headers, row |-> row])
  /\ UNCHANGED <<sheet, cache, files, trashed, nextId, nextDoc, rt, run>>

\* processFormFromData / processCreditNoteFormFromData on a sheet that has
\* its header row.
EncodeCreate ==
  /\ calls = 0
  /\ \E headers \in LiveHeaders(rt), data \in LiveForms(rt) :
       Encoded("encodeCreate", headers, data, CreatedRow(rt, Uuid(1), data, 2))

\* updateInvoiceByIdFromData / updateCreditNoteByIdFromData
EncodeUpdate ==
  /\ calls = 0
  /\ \E headers \in LiveHeaders(rt), data \in LiveForms(rt) :
       Encoded("encodeUpdate", headers, data,
               UpdatedRow(rt, headers, Uuid(1), data, 2))

CodecNext ==
  \/ EncodeCreate
  \/ EncodeUpdate

CodecSpec == CodecInit /\ [][CodecNext]_vars

\* The cell of a row under the column of a name in a header row.
Under(headers, row, name) == At(row, IndexOf(headers, name))

\* The row the operation leaves in a sheet with the columns as written.
PlainRow ==
  IF last.op = "encodeCreate" THEN CreatedRow(rt, last.id, last.data, 2)
  ELSE UpdatedRow(rt, Headers(rt), last.id, last.data, 2)

\* C24: whatever the order of the columns of the live header row, the row
\* a create or an update leaves holds each fixed header field under the
\* column of its name: the id, the project name and the two links as the
\* call has them, every fixed field as under the columns as written.
C24_FieldsUnderTheirColumns ==
  last.op \in {"encodeCreate", "encodeUpdate"} =>
    /\ Under(last.out.headers, last.out.row, "ID") = last.id
    /\ Under(last.out.headers, last.out.row, "Project Name") = last.data.projectName
    /\ Under(last.out.headers, last.out.row, "Google Doc Link") = DocUrl(2)
    /\ Under(last.out.headers, last.out.row, "PDF Link") = PdfUrl(2)
    /\ \A k \in 1..Len(BaseHeaders(rt)) :
         Under(last.out.headers, last.out.row, BaseHeaders(rt)[k])
           = Under(Headers(rt), PlainRow, BaseHeaders(rt)[k])

\* ------------------------------------------------------------ two creates
\* Two invocations of the create of one record type run statement by
\* statement; the script takes no lock, so their statements interleave in
\* any order.  Here run holds the two invocations and whether a statement of
\* one was ever run while the other was under way.

Racers == {1, 2}

\* An invocation that has not been entered yet.
NotStarted ==
  [pc |-> "start", id |-> "", row |-> <<>>, at |-> 0, n |-> 0, env |-> EnvOk,
   err |-> ""]

RaceInit ==
  /\ sheet = [t \in Tables |-> <<>>]
  /\ cache = [k \in CacheKeys |-> Null]
  /\ files = {}
  /\ trashed = {}
  /\ nextId = 1
  /\ nextDoc = 1
  /\ rt \in RecTypes
  /\ calls = 0
  /\ last = Call("init", "", NoData, TRUE, "", <<>>, <<>>)
  /\ run = [inv |-> [p \in Racers |-> NotStarted], overlapped |-> FALSE]

\* The other invocation is between its first and its last statement.
UnderWay(p) == \E q \in Racers \ {p} : run.inv[q].pc \notin {"start", "done"}

\* Invocation p has run a statement and is now r.
Stepped(p, r) ==
  run' = [inv |-> [run.inv EXCEPT ![p] = r],
          overlapped |-> run.overlapped \/ UnderWay(p)]

\* The form is validated, the config resolved, the id drawn and the row
\* built.
RaceEncodeRow ==
  \E p \in Racers, env \in {EnvOk, Env("ok", "null", FALSE, FALSE)} :
    /\ run.inv[p].pc = "start"
    /\ nextId' = nextId + 1
    /\ Stepped(p, [run.inv[p] EXCEPT
                     !.pc = "read", !.id = Uuid(nextId), !.env = env,
                     !.row = IF rt = "invoice"
                             THEN InvoiceCreateRow(Uuid(nextId), BaseInvoice)
                             ELSE CreditNoteCreateRow(Uuid(nextId), BaseCreditNote)])
    /\ UNCHANGED <<sheet, cache, files, trashed, nextDoc, rt, calls, last>>

\* const newRowIndex = sheet.getLastRow() + 1
RaceReadLastRow ==
  \E p \in Racers :
    /\ run.inv[p].pc = "read"
    /\ Stepped(p, [run.inv[p] EXCEPT !.pc = "write",
                                     !.at = GetLastRow(sheet[rt]) + 1])
    /\ UNCHANGED <<sheet, cache, files, trashed, nextId, nextDoc, rt, calls, last>>

\* sheet.getRange(newRowIndex, 1, 1, row.length).setValues([row])
RaceWriteRow ==
  \E p \in Racers :
    /\ run.inv[p].pc = "write"
    /\ sheet' = [sheet EXCEPT ![rt] = SetRowValues(@, run.inv[p].at, run.inv[p].row)]
    /\ Stepped(p, [run.inv[p] EXCEPT !.pc = "render"])
    /\ UNCHANGED <<cache, files, trashed, nextId, nextDoc, rt, calls, last>>

\* Invocation p after its render doc: on to the links, or ended by the throw.
RaceRendered(p, doc) ==
  Stepped(p, IF doc.ok THEN [run.inv[p] EXCEPT !.pc = "links", !.n = doc.n]
             ELSE [run.inv[p] EXCEPT !.pc = "done", !.n = doc.n, !.err = doc.err])

\* The document is rendered and exported.
RaceRender ==
  \E p \in Racers :
    /\ run.inv[p].pc = "render"
    /\ \E doc \in {Render(St, rt, IF rt = "invoice" THEN BaseInvoice.templateId
                                   ELSE CreditNoteTemplateId, run.inv[p].env)} :
         /\ files' = doc.st.files
         /\ nextDoc' = doc.st.nextDoc
         /\ RaceRendered(p, doc)
    /\ UNCHANGED <<sheet, cache, trashed, nextId, rt, calls, last>>

\* sheet.getRange(newRowIndex, 20).setValue(...) and column 21
RaceWriteLinks ==
  \E p \in Racers :
    /\ run.inv[p].pc = "links"
    /\ sheet' = [sheet EXCEPT ![rt] =
                   SetCell(SetCell(@, run.inv[p].at, LinkCol(rt), DocUrl(run.inv[p].n)),
                           run.inv[p].at, LinkCol(rt) + 1, PdfUrl(run.inv[p].n))]
    /\ Stepped(p, [run.inv[p] EXCEPT !.pc = "cache"])
    /\ UNCHANGED <<cache, files, trashed, nextId, nextDoc, rt, calls, last>>

\* CacheService.getScriptCache().remove(key), and the create returns.
RaceRemoveKey ==
  \E p \in Racers :
    /\ run.inv[p].pc = "cache"
    /\ cache' = [cache EXCEPT ![ListKey(rt)] = Null]
    /\ Stepped(p, [run.inv[p] EXCEPT !.pc = "done"])
    /\ UNCHANGED <<sheet, files, trashed, nextId, nextDoc, rt, calls, last>>

RaceNext ==
  \/ RaceEncodeRow
  \/ RaceReadLastRow
  \/ RaceWriteRow
  \/ RaceRender
  \/ RaceWriteLinks
  \/ RaceRemoveKey

RaceSpec == RaceInit /\ [][RaceNext]_vars

BothDone == \A p \in Racers : run.inv[p].pc = "done"

\* The rows of the table that carry the id of one of the two invocations.
RowsOfRacers ==
  {i \in 1..Len(sheet[rt]) : \E p \in Racers : IdOf(sheet[rt][i]) = run.inv[p].id}

\* C25: once two creates on one table have both completed, the table holds
\* the rows of both records when they ran one after the other, and the row
\* of only one of the two when both read the same last-row index (both then
\* wrote the same sheet row).
C25_AppendRace ==
  BothDone =>
    /\ ~run.overlapped =>
         \A p \in Racers : HasId(sheet[rt], run.inv[p].id)
    /\ run.inv[1].at = run.inv[2].at =>
         /\ Len(sheet[rt]) = 1
         /\ \E p \in Racers :
              /\ HasId(sheet[rt], run.inv[p].id)
              /\ \A q \in Racers \ {p} : ~HasId(sheet[rt], run.inv[q].id)

\* Both creates read the same last-row index, both wrote and completed, and
\* one of the two records is gone.
C25_OneRowLost ==
  /\ BothDone
  /\ run.overlapped
  /\ run.inv[1].at = run.inv[2].at
  /\ run.inv[1].err = "" /\ run.inv[2].err = ""
  /\ Cardinality(RowsOfRacers) = 1

\* ------------------------------------------------------------ row identity
\* The ID cells of the rows of a table, top to bottom.
IdsOf(rows) == [i \in 1..Len(rows) |-> IdOf(rows[i])]

\* ids without its k-th element.
Without(ids, k) == [j \in 1..(Len(ids) - 1) |-> IF j < k THEN ids[j] ELSE ids[j + 1]]

\* No two rows carry the same non-blank ID.
UniqueIds(rows) ==
  \A i \in 1..Len(rows) : \A j \in 1..Len(rows) :
    (i # j /\ IdOf(rows[i]) # "") => IdOf(rows[i]) # IdOf(rows[j])

\* From the ID cells old to the ID cells new every row kept its ID: the
\* cells are the same, or one row went, or rows came below the others, one
\* with an ID no row had or rows with a blank ID cell.
IdsKept(old, new) ==
  \/ new = old
  \/ \E k \in 1..Len(old) : new = Without(old, k)
  \/ /\ Len(new) > Len(old)
     /\ SubSeq(new, 1, Len(old)) = old
     /\ \/ /\ Len(new) = Len(old) + 1
           /\ \A i \in 1..Len(old) : old[i] # new[Len(new)]
        \/ \A i \in (Len(old) + 1)..Len(new) : new[i] = ""

\* C26: no two rows of the table carry the same ID, and no step, of an
\* update, a create or a delete, in whatever interleaving, changes the ID
\* cell of a row that stays in the table or adds a row with an ID another
\* row has.
C26_RowsKeepTheirId ==
  /\ [](rt \in RecTypes => UniqueIds(sheet[rt]))
  /\ [][(rt \in RecTypes) => IdsKept(IdsOf(sheet[rt]), IdsOf(sheet'[rt])) ]_vars

\* ------------------------------------------------------------ list race
\* C27: once a list read that ran interleaved with mutations of its table
\* has completed (every mutation has completed too), the list cache key is
\* empty or holds the list of the rows the table has now, so the next list
\* read reflects the mutations.
C27_NoStaleListAfterRace ==
  (rt \in RecTypes /\ run.kind = "list" /\ run.pc > Len(ListStages)) =>
    \/ cache[ListKey(rt)] = Null
    \/ JsonParse(cache[ListKey(rt)]) = ListOf(sheet[rt])

\* ------------------------------------------------------------ live links
\* The link is blank, or does not name a file this system has trashed.
NotTrashed(url) ==
  url # "" => (ExtractFileIdFromUrl(url).ok => ExtractFileIdFromUrl(url).id \notin trashed)

\* C28: after any sequence of creates, updates and deletes, successful or
\* failed, no document link and no PDF link stored in a row of the table
\* names a file that has been trashed.
C28_LinksNameLiveArtifacts ==
  rt \in RecTypes =>
    \A i \in 1..Len(sheet[rt]) :
      NotTrashed(DocLink(sheet[rt][i])) /\ NotTrashed(PdfLink(sheet[rt][i]))

\* ------------------------------------------------------------ cached list
\* C29: the list stored under "invoiceList" was computed from a read of the
\* Invoices table that succeeded: it is the list of the rows of the table
\* (every change of the table removes the key), never the empty list a
\* failed read returns, whichever of getInvoiceListFromData and
\* getInvoiceListWithCaching made the read.
C29_CachedListComesFromTheTable ==
  (rt = "invoice" /\ cache["invoiceList"] # Null) =>
    JsonParse(cache["invoiceList"]) = InvoiceListOf(sheet["invoice"])

\* ------------------------------------------------------------ refused calls
\* The ids of a refused call: blank ones, and those no row of the rows has.
BlankIds == {"", "  "}
RefusedIds(rows) == BlankIds \cup {id \in IdInputs : ~HasId(rows, id)}

\* The result r is {success: false, message} and the state it leaves has
\* the rows, the artifact files and the cache of the current state.
Refused(r) ==
  /\ ~r.ok
  /\ r.err \in {"InvalidId", "NotFound"}
  /\ r.st.sheet = sheet
  /\ r.st.files = files
  /\ r.st.trashed = trashed
  /\ r.st.cache = cache

\* C30: update and delete called with a blank id, or with an id that is in
\* no row of the table, return {success: false, message} and leave the rows
\* of the table, every artifact file and the list cache as they were.
C30_RefusedCallsChangeNothing ==
  /\ rt = "invoice" =>
       \A id \in RefusedIds(sheet["invoice"]) :
         /\ \A env \in TrashEnvs : Refused(DeleteInvoiceByIdFromData(St, id, env))
         /\ \A c \in UpdateInvoiceCalls :
              Refused(UpdateInvoiceByIdFromData(St, id, c[1], c[2]))
  /\ rt = "creditNote" =>
       \A id \in RefusedIds(sheet["creditNote"]) :
         /\ \A env \in TrashEnvs :
              Refused(DeleteCreditNoteByIdFromData(St, id, env))
         /\ \A c \in UpdateCreditNoteCalls :
              Refused(UpdateCreditNoteByIdFromData(St, [c[1] EXCEPT !.id = id], c[2]))

\* An update or a delete was refused on a table that has a row, with
\* artifacts on disk and the list cached.
C30_RefusedWithRowsAndCache ==
  /\ rt \in RecTypes
  /\ last.op \in {"update", "delete"}
  /\ ~last.ok
  /\ last.err \in {"InvalidId", "NotFound"}
  /\ Len(sheet[rt]) > 0
  /\ files # {}
  /\ cache[ListKey(rt)] # Null
====
